---------------------------- MODULE Spec2Model ----------------------------
(***************************************************************************)
(* Homograph domain analyzer: the variant generator (HomographGenerator)   *)
(* and the variant analyzer (DomainAnalyzer) of                            *)
(* src/homograph_analyzer/homograph_domain_analyzer.py.                    *)
(*                                                                         *)
(* Strings are sequences of Unicode code points, so that slicing,          *)
(* lower-casing, bit flips and string equality are computed as the code    *)
(* computes them.  A Python index i (0-based) is position i + 1 here.      *)
(***************************************************************************)
EXTENDS Integers, Sequences, FiniteSets, TLC

(***************************************************************************)
(* Character-mapping tables, transcribed from the source in list order.    *)
(***************************************************************************)

\* ASCII letter (code point) -> ordered list of lookalike strings (each a sequence of code points).
HOMOGRAPH_MAPPINGS ==
    (97 :> << <<1072>>, <<593>>, <<945>>, <<7841>>, <<261>>, <<224>>, <<225>>, <<226>>, <<227>>, <<228>>, <<229>>, <<257>>, <<259>>, <<462>>, <<513>>, <<515>>, <<7843>>, <<7845>>, <<7847>>, <<7849>>, <<7851>>, <<7853>>, <<7855>>, <<7857>>, <<7859>>, <<7861>>, <<7863>> >>) @@
    (98 :> << <<1068>>, <<389>>, <<1280>>, <<7683>>, <<7685>>, <<7687>>, <<384>> >>) @@
    (99 :> << <<1089>>, <<1010>>, <<267>>, <<231>>, <<263>>, <<265>>, <<269>>, <<392>>, <<572>> >>) @@
    (100 :> << <<1281>>, <<599>>, <<7691>>, <<7693>>, <<7695>>, <<7697>>, <<7699>>, <<271>>, <<273>> >>) @@
    (101 :> << <<1077>>, <<1105>>, <<7865>>, <<281>>, <<232>>, <<233>>, <<234>>, <<235>>, <<275>>, <<277>>, <<279>>, <<283>>, <<517>>, <<519>>, <<7867>>, <<7869>>, <<7871>>, <<7873>>, <<7875>>, <<7877>>, <<7879>> >>) @@
    (102 :> << <<402>>, <<7711>> >>) @@
    (103 :> << <<609>>, <<289>>, <<291>>, <<285>>, <<287>>, <<487>>, <<501>>, <<7713>> >>) @@
    (104 :> << <<1211>>, <<7715>>, <<7717>>, <<7719>>, <<7721>>, <<7723>>, <<293>>, <<543>>, <<295>> >>) @@
    (105 :> << <<1110>>, <<305>>, <<617>>, <<236>>, <<237>>, <<238>>, <<239>>, <<297>>, <<299>>, <<301>>, <<303>>, <<464>>, <<521>>, <<523>>, <<7881>>, <<7883>> >>) @@
    (106 :> << <<1112>>, <<309>>, <<496>> >>) @@
    (107 :> << <<954>>, <<7729>>, <<7731>>, <<7733>>, <<311>>, <<312>> >>) @@
    (108 :> << <<1231>>, <<7735>>, <<7737>>, <<7739>>, <<7741>>, <<314>>, <<316>>, <<318>>, <<320>>, <<322>>, <<49>>, <<124>> >>) @@
    (109 :> << <<7745>>, <<7747>>, <<625>>, <<114, 110>> >>) @@
    (110 :> << <<1400>>, <<7749>>, <<7751>>, <<7753>>, <<7755>>, <<324>>, <<326>>, <<328>>, <<329>>, <<626>>, <<414>> >>) @@
    (111 :> << <<1086>>, <<959>>, <<963>>, <<48>>, <<7885>>, <<248>>, <<242>>, <<243>>, <<244>>, <<245>>, <<246>>, <<333>>, <<335>>, <<337>>, <<417>>, <<466>>, <<491>>, <<493>>, <<525>>, <<527>>, <<559>>, <<561>>, <<7887>>, <<7889>>, <<7891>>, <<7893>>, <<7895>>, <<7897>>, <<7899>>, <<7901>>, <<7903>>, <<7905>>, <<7907>> >>) @@
    (112 :> << <<1088>>, <<961>>, <<7765>>, <<7767>>, <<421>> >>) @@
    (113 :> << <<1307>>, <<587>> >>) @@
    (114 :> << <<1075>>, <<7769>>, <<7771>>, <<7773>>, <<7775>>, <<341>>, <<343>>, <<345>>, <<529>>, <<531>> >>) @@
    (115 :> << <<1109>>, <<7777>>, <<7779>>, <<7781>>, <<7783>>, <<7785>>, <<347>>, <<349>>, <<351>>, <<353>>, <<537>>, <<53>>, <<36>> >>) @@
    (116 :> << <<964>>, <<7787>>, <<7789>>, <<7791>>, <<7793>>, <<355>>, <<357>>, <<359>>, <<539>>, <<55>> >>) @@
    (117 :> << <<965>>, <<1405>>, <<7909>>, <<249>>, <<250>>, <<251>>, <<252>>, <<361>>, <<363>>, <<365>>, <<367>>, <<369>>, <<371>>, <<432>>, <<468>>, <<470>>, <<472>>, <<474>>, <<476>>, <<533>>, <<535>>, <<7911>>, <<7913>>, <<7915>>, <<7917>>, <<7919>>, <<7921>> >>) @@
    (118 :> << <<957>>, <<1141>>, <<7805>>, <<7807>> >>) @@
    (119 :> << <<1309>>, <<7809>>, <<7811>>, <<7813>>, <<7815>>, <<7817>>, <<373>>, <<118, 118>> >>) @@
    (120 :> << <<1093>>, <<967>>, <<7819>>, <<7821>> >>) @@
    (121 :> << <<1091>>, <<947>>, <<7923>>, <<253>>, <<375>>, <<255>>, <<7929>>, <<563>>, <<7823>>, <<7925>>, <<7927>> >>) @@
    (122 :> << <<7458>>, <<378>>, <<380>>, <<382>>, <<7825>>, <<7827>>, <<7829>>, <<438>> >>) @@
    (65 :> << <<1040>>, <<913>>, <<7840>>, <<260>>, <<192>>, <<193>>, <<194>>, <<195>>, <<196>>, <<197>>, <<256>>, <<258>>, <<461>> >>) @@
    (66 :> << <<1042>>, <<914>>, <<7682>>, <<7684>>, <<7686>>, <<385>> >>) @@
    (67 :> << <<1057>>, <<1017>>, <<266>>, <<199>>, <<262>>, <<264>>, <<268>> >>) @@
    (69 :> << <<1045>>, <<917>>, <<7864>>, <<280>>, <<200>>, <<201>>, <<202>>, <<203>>, <<274>>, <<276>>, <<278>>, <<282>> >>) @@
    (72 :> << <<1053>>, <<919>>, <<7714>>, <<7716>>, <<7718>>, <<7720>>, <<7722>>, <<292>> >>) @@
    (73 :> << <<1030>>, <<921>>, <<204>>, <<205>>, <<206>>, <<207>>, <<296>>, <<298>>, <<300>>, <<304>>, <<302>>, <<49>>, <<108>>, <<124>> >>) @@
    (75 :> << <<922>>, <<1050>>, <<7728>>, <<7730>>, <<7732>>, <<310>> >>) @@
    (77 :> << <<924>>, <<1052>>, <<7744>>, <<7746>> >>) @@
    (78 :> << <<925>>, <<7748>>, <<7750>>, <<7752>>, <<7754>>, <<323>>, <<325>>, <<327>> >>) @@
    (79 :> << <<1054>>, <<927>>, <<48>>, <<7884>>, <<216>>, <<210>>, <<211>>, <<212>>, <<213>>, <<214>>, <<332>>, <<334>>, <<336>>, <<416>> >>) @@
    (80 :> << <<1056>>, <<929>>, <<7764>>, <<7766>> >>) @@
    (83 :> << <<1029>>, <<7776>>, <<7778>>, <<7780>>, <<7782>>, <<7784>>, <<346>>, <<348>>, <<350>>, <<352>>, <<53>>, <<36>> >>) @@
    (84 :> << <<932>>, <<1058>>, <<7786>>, <<7788>>, <<7790>>, <<7792>>, <<354>>, <<356>>, <<358>>, <<55>> >>) @@
    (88 :> << <<935>>, <<1061>>, <<7818>>, <<7820>> >>) @@
    (89 :> << <<933>>, <<1059>>, <<7922>>, <<221>>, <<374>>, <<376>>, <<7928>>, <<562>>, <<7822>> >>) @@
    (90 :> << <<918>>, <<377>>, <<379>>, <<381>>, <<7824>>, <<7826>>, <<7828>> >>)

\* Letter -> ordered list of leetspeak replacements.
LEETSPEAK_MAPPINGS ==
    (97 :> << <<52>>, <<64>> >>) @@
    (98 :> << <<56>> >>) @@
    (101 :> << <<51>> >>) @@
    (103 :> << <<57>>, <<54>> >>) @@
    (105 :> << <<49>>, <<33>>, <<124>> >>) @@
    (108 :> << <<49>>, <<124>> >>) @@
    (111 :> << <<48>> >>) @@
    (115 :> << <<53>>, <<36>> >>) @@
    (116 :> << <<55>>, <<43>> >>) @@
    (122 :> << <<50>> >>)

\* Letter -> ordered list of QWERTY neighbours.
KEYBOARD_TYPOS ==
    (97 :> << <<113>>, <<119>>, <<115>>, <<122>> >>) @@
    (98 :> << <<118>>, <<103>>, <<104>>, <<110>> >>) @@
    (99 :> << <<120>>, <<100>>, <<102>>, <<118>> >>) @@
    (100 :> << <<115>>, <<101>>, <<114>>, <<102>>, <<99>>, <<120>> >>) @@
    (101 :> << <<119>>, <<115>>, <<100>>, <<114>> >>) @@
    (102 :> << <<100>>, <<114>>, <<116>>, <<103>>, <<118>>, <<99>> >>) @@
    (103 :> << <<102>>, <<116>>, <<121>>, <<104>>, <<98>>, <<118>> >>) @@
    (104 :> << <<103>>, <<121>>, <<117>>, <<106>>, <<110>>, <<98>> >>) @@
    (105 :> << <<117>>, <<106>>, <<107>>, <<111>> >>) @@
    (106 :> << <<104>>, <<117>>, <<105>>, <<107>>, <<109>>, <<110>> >>) @@
    (107 :> << <<106>>, <<105>>, <<111>>, <<108>>, <<109>> >>) @@
    (108 :> << <<107>>, <<111>>, <<112>> >>) @@
    (109 :> << <<110>>, <<106>>, <<107>> >>) @@
    (110 :> << <<98>>, <<104>>, <<106>>, <<109>> >>) @@
    (111 :> << <<105>>, <<107>>, <<108>>, <<112>> >>) @@
    (112 :> << <<111>>, <<108>> >>) @@
    (113 :> << <<119>>, <<97>> >>) @@
    (114 :> << <<101>>, <<100>>, <<102>>, <<116>> >>) @@
    (115 :> << <<97>>, <<119>>, <<101>>, <<100>>, <<120>>, <<122>> >>) @@
    (116 :> << <<114>>, <<102>>, <<103>>, <<121>> >>) @@
    (117 :> << <<121>>, <<104>>, <<106>>, <<105>> >>) @@
    (118 :> << <<99>>, <<102>>, <<103>>, <<98>> >>) @@
    (119 :> << <<113>>, <<97>>, <<115>>, <<101>> >>) @@
    (120 :> << <<122>>, <<115>>, <<100>>, <<99>> >>) @@
    (121 :> << <<116>>, <<103>>, <<104>>, <<117>> >>) @@
    (122 :> << <<97>>, <<115>>, <<120>> >>)

\* Ordered (pattern, replacements) pairs, in the dict's insertion order.
PHONETIC_SUBSTITUTIONS ==
    << [pattern |-> <<102>>, replacements |-> << <<112, 104>> >>],
       [pattern |-> <<112, 104>>, replacements |-> << <<102>> >>],
       [pattern |-> <<99, 107>>, replacements |-> << <<107>>, <<99>> >>],
       [pattern |-> <<107>>, replacements |-> << <<99>>, <<99, 107>> >>],
       [pattern |-> <<99>>, replacements |-> << <<107>>, <<115>> >>],
       [pattern |-> <<115>>, replacements |-> << <<99>>, <<122>> >>],
       [pattern |-> <<122>>, replacements |-> << <<115>> >>],
       [pattern |-> <<120>>, replacements |-> << <<107, 115>>, <<99, 107, 115>> >>],
       [pattern |-> <<119>>, replacements |-> << <<118, 118>>, <<117, 117>> >>],
       [pattern |-> <<105>>, replacements |-> << <<121>>, <<101, 101>> >>],
       [pattern |-> <<121>>, replacements |-> << <<105>>, <<105, 101>> >>],
       [pattern |-> <<111, 111>>, replacements |-> << <<117>> >>],
       [pattern |-> <<117>>, replacements |-> << <<111, 111>> >>] >>

\* com, net, org, info, biz, co, io, ... (72 entries, in list order)
ALTERNATIVE_TLDS ==
    << <<99, 111, 109>>, <<110, 101, 116>>, <<111, 114, 103>>, <<105, 110, 102, 111>>, <<98, 105, 122>>, <<99, 111>>,
       <<105, 111>>, <<97, 112, 112>>, <<100, 101, 118>>, <<97, 105>>, <<120, 121, 122>>, <<111, 110, 108, 105, 110, 101>>,
       <<115, 105, 116, 101>>, <<119, 101, 98, 115, 105, 116, 101>>, <<116, 101, 99, 104>>, <<115, 116, 111, 114, 101>>, <<115, 104, 111, 112>>, <<99, 108, 117, 98>>,
       <<117, 107>>, <<117, 115>>, <<100, 101>>, <<102, 114>>, <<105, 116>>, <<101, 115>>,
       <<110, 108>>, <<114, 117>>, <<99, 110>>, <<106, 112>>, <<107, 114>>, <<105, 110>>,
       <<97, 117>>, <<99, 97>>, <<98, 114>>, <<109, 120>>, <<112, 108>>, <<99, 122>>,
       <<99, 104>>, <<97, 116>>, <<98, 101>>, <<115, 101>>, <<99, 111, 46, 117, 107>>, <<99, 111, 109, 46, 97, 117>>,
       <<99, 111, 46, 105, 110>>, <<99, 111, 46, 106, 112>>, <<99, 111, 109, 46, 98, 114>>, <<99, 111, 46, 110, 122>>, <<99, 111, 109, 46, 109, 120>>, <<116, 111, 112>>,
       <<119, 111, 114, 107>>, <<99, 108, 105, 99, 107>>, <<108, 105, 110, 107>>, <<108, 105, 118, 101>>, <<119, 111, 114, 108, 100>>, <<116, 111, 100, 97, 121>>,
       <<101, 109, 97, 105, 108>>, <<98, 101, 115, 116>>, <<119, 105, 110>>, <<118, 105, 112>>, <<108, 116, 100>>, <<103, 114, 111, 117, 112>>,
       <<99, 111, 109, 112, 97, 110, 121>>, <<115, 111, 108, 117, 116, 105, 111, 110, 115>> >>

\* www-, www., login-, signin-, secure-, ... (in list order)
PHISHING_PREFIXES ==
    << <<119, 119, 119, 45>>, <<119, 119, 119, 46>>, <<108, 111, 103, 105, 110, 45>>, <<115, 105, 103, 110, 105, 110, 45>>, <<115, 101, 99, 117, 114, 101, 45>>, <<97, 99, 99, 111, 117, 110, 116, 45>>,
       <<109, 121, 45>>, <<112, 111, 114, 116, 97, 108, 45>>, <<115, 117, 112, 112, 111, 114, 116, 45>>, <<104, 101, 108, 112, 45>>, <<97, 117, 116, 104, 45>>, <<118, 101, 114, 105, 102, 121, 45>>,
       <<117, 112, 100, 97, 116, 101, 45>>, <<115, 101, 114, 118, 105, 99, 101, 45>>, <<111, 110, 108, 105, 110, 101, 45>>, <<119, 101, 98, 45>>, <<109, 111, 98, 105, 108, 101, 45>>, <<97, 112, 112, 45>>,
       <<109, 97, 105, 108, 45>>, <<97, 100, 109, 105, 110, 45>> >>

\* -login, -signin, -secure, ... (in list order)
PHISHING_SUFFIXES ==
    << <<45, 108, 111, 103, 105, 110>>, <<45, 115, 105, 103, 110, 105, 110>>, <<45, 115, 101, 99, 117, 114, 101>>, <<45, 97, 99, 99, 111, 117, 110, 116>>, <<45, 112, 111, 114, 116, 97, 108>>, <<45, 115, 117, 112, 112, 111, 114, 116>>,
       <<45, 104, 101, 108, 112>>, <<45, 97, 117, 116, 104>>, <<45, 118, 101, 114, 105, 102, 121>>, <<45, 117, 112, 100, 97, 116, 101>>, <<45, 115, 101, 114, 118, 105, 99, 101>>, <<45, 111, 110, 108, 105, 110, 101>>,
       <<45, 119, 101, 98>>, <<45, 109, 111, 98, 105, 108, 101>>, <<45, 97, 112, 112>>, <<45, 109, 97, 105, 108>>, <<45, 97, 100, 109, 105, 110>>, <<45, 111, 102, 102, 105, 99, 105, 97, 108>>,
       <<45, 114, 101, 97, 108>>, <<45, 115, 101, 99, 117, 114, 105, 116, 121>>, <<45, 99, 101, 110, 116, 101, 114>>, <<45, 116, 101, 97, 109>>, <<45, 103, 114, 111, 117, 112>>, <<45, 105, 110, 99>>,
       <<45, 99, 111, 114, 112>>, <<45, 108, 116, 100>> >>

\* str.lower() on the code points of the tables above that it changes
\* (U+0130 lowers to two code points); every other non-ASCII code point
\* of the tables is its own lower case.
LowerTable ==
    (192 :> <<224>>) @@ (193 :> <<225>>) @@ (194 :> <<226>>) @@ (195 :> <<227>>) @@ (196 :> <<228>>) @@ (197 :> <<229>>) @@
    (199 :> <<231>>) @@ (200 :> <<232>>) @@ (201 :> <<233>>) @@ (202 :> <<234>>) @@ (203 :> <<235>>) @@ (204 :> <<236>>) @@
    (205 :> <<237>>) @@ (206 :> <<238>>) @@ (207 :> <<239>>) @@ (210 :> <<242>>) @@ (211 :> <<243>>) @@ (212 :> <<244>>) @@
    (213 :> <<245>>) @@ (214 :> <<246>>) @@ (216 :> <<248>>) @@ (221 :> <<253>>) @@ (256 :> <<257>>) @@ (258 :> <<259>>) @@
    (260 :> <<261>>) @@ (262 :> <<263>>) @@ (264 :> <<265>>) @@ (266 :> <<267>>) @@ (268 :> <<269>>) @@ (274 :> <<275>>) @@
    (276 :> <<277>>) @@ (278 :> <<279>>) @@ (280 :> <<281>>) @@ (282 :> <<283>>) @@ (292 :> <<293>>) @@ (296 :> <<297>>) @@
    (298 :> <<299>>) @@ (300 :> <<301>>) @@ (302 :> <<303>>) @@ (304 :> <<105, 775>>) @@ (310 :> <<311>>) @@ (323 :> <<324>>) @@
    (325 :> <<326>>) @@ (327 :> <<328>>) @@ (332 :> <<333>>) @@ (334 :> <<335>>) @@ (336 :> <<337>>) @@ (346 :> <<347>>) @@
    (348 :> <<349>>) @@ (350 :> <<351>>) @@ (352 :> <<353>>) @@ (354 :> <<355>>) @@ (356 :> <<357>>) @@ (358 :> <<359>>) @@
    (374 :> <<375>>) @@ (376 :> <<255>>) @@ (377 :> <<378>>) @@ (379 :> <<380>>) @@ (381 :> <<382>>) @@ (385 :> <<595>>) @@
    (416 :> <<417>>) @@ (461 :> <<462>>) @@ (562 :> <<563>>) @@ (913 :> <<945>>) @@ (914 :> <<946>>) @@ (917 :> <<949>>) @@
    (918 :> <<950>>) @@ (919 :> <<951>>) @@ (921 :> <<953>>) @@ (922 :> <<954>>) @@ (924 :> <<956>>) @@ (925 :> <<957>>) @@
    (927 :> <<959>>) @@ (929 :> <<961>>) @@ (932 :> <<964>>) @@ (933 :> <<965>>) @@ (935 :> <<967>>) @@ (1017 :> <<1010>>) @@
    (1029 :> <<1109>>) @@ (1030 :> <<1110>>) @@ (1040 :> <<1072>>) @@ (1042 :> <<1074>>) @@ (1045 :> <<1077>>) @@ (1050 :> <<1082>>) @@
    (1052 :> <<1084>>) @@ (1053 :> <<1085>>) @@ (1054 :> <<1086>>) @@ (1056 :> <<1088>>) @@ (1057 :> <<1089>>) @@ (1058 :> <<1090>>) @@
    (1059 :> <<1091>>) @@ (1061 :> <<1093>>) @@ (1068 :> <<1100>>) @@ (1280 :> <<1281>>) @@ (7682 :> <<7683>>) @@ (7684 :> <<7685>>) @@
    (7686 :> <<7687>>) @@ (7714 :> <<7715>>) @@ (7716 :> <<7717>>) @@ (7718 :> <<7719>>) @@ (7720 :> <<7721>>) @@ (7722 :> <<7723>>) @@
    (7728 :> <<7729>>) @@ (7730 :> <<7731>>) @@ (7732 :> <<7733>>) @@ (7744 :> <<7745>>) @@ (7746 :> <<7747>>) @@ (7748 :> <<7749>>) @@
    (7750 :> <<7751>>) @@ (7752 :> <<7753>>) @@ (7754 :> <<7755>>) @@ (7764 :> <<7765>>) @@ (7766 :> <<7767>>) @@ (7776 :> <<7777>>) @@
    (7778 :> <<7779>>) @@ (7780 :> <<7781>>) @@ (7782 :> <<7783>>) @@ (7784 :> <<7785>>) @@ (7786 :> <<7787>>) @@ (7788 :> <<7789>>) @@
    (7790 :> <<7791>>) @@ (7792 :> <<7793>>) @@ (7818 :> <<7819>>) @@ (7820 :> <<7821>>) @@ (7822 :> <<7823>>) @@ (7824 :> <<7825>>) @@
    (7826 :> <<7827>>) @@ (7828 :> <<7829>>) @@ (7840 :> <<7841>>) @@ (7864 :> <<7865>>) @@ (7884 :> <<7885>>) @@ (7922 :> <<7923>>) @@
    (7928 :> <<7929>>)
(***************************************************************************)
(* Bounds of the model.                                                    *)
(***************************************************************************)
\* Longest target name (in characters) the generator is run on.
MaxLen == 3
\* Longest configured techniques list.
MaxTechs == 2
\* Largest small variant cap tried (besides the default of AnalysisConfig).
MaxCap == 2

(***************************************************************************)
(* Python string primitives on sequences of code points.                   *)
(***************************************************************************)
Min(a, b) == IF a <= b THEN a ELSE b

\* The elements of a list.
Range(s) == {s[i] : i \in 1..Len(s)}

RECURSIVE FlattenRange(_, _, _)
\* ss[lo] \o ... \o ss[hi], concatenated by halves.
FlattenRange(ss, lo, hi) ==
    IF lo > hi THEN << >>
    ELSE IF lo = hi THEN ss[lo]
    ELSE LET mid == (lo + hi) \div 2
         IN  FlattenRange(ss, lo, mid) \o FlattenRange(ss, mid + 1, hi)

\* The concatenation of a sequence of sequences (a nested loop's output).
Flatten(ss) == FlattenRange(ss, 1, Len(ss))

\* s[:n] and s[n:]
Take(s, n) == SubSeq(s, 1, Min(n, Len(s)))
Drop(s, n) == SubSeq(s, n + 1, Len(s))

RECURSIVE Str(_)
\* str(n) of a non-negative integer: its decimal digits.
Str(n) == IF n < 10 THEN <<48 + n>> ELSE Str(n \div 10) \o <<48 + (n % 10)>>

\* str.lower() of one character: ASCII A-Z, and the table's code points.
LowerChar(c) ==
    IF c \in DOMAIN LowerTable THEN LowerTable[c]
    ELSE IF c \in 65..90 THEN <<c + 32>> ELSE <<c>>

Lower(s) == Flatten([i \in 1..Len(s) |-> LowerChar(s[i])])

\* The characters str.strip() removes (str.isspace()).
Whitespace ==
    (9..13) \cup (28..32) \cup {133, 160, 5760} \cup (8192..8202)
    \cup {8232, 8233, 8239, 8287, 12288}

RECURSIVE LStripChars(_, _)
LStripChars(s, cs) ==
    IF s # <<>> /\ Head(s) \in cs THEN LStripChars(Tail(s), cs) ELSE s

RECURSIVE RStripChars(_, _)
RStripChars(s, cs) ==
    IF s # <<>> /\ s[Len(s)] \in cs
    THEN RStripChars(SubSeq(s, 1, Len(s) - 1), cs) ELSE s

Strip(s) == RStripChars(LStripChars(s, Whitespace), Whitespace)

\* s.find(p) + 1: the first position where p occurs in s, 0 when it does not.
Find(s, p) ==
    LET hits == {i \in 1..(Len(s) - Len(p) + 1) : SubSeq(s, i, i + Len(p) - 1) = p}
    IN  IF hits = {} THEN 0 ELSE CHOOSE i \in hits : \A j \in hits : i <= j

Contains(s, p) == Find(s, p) # 0

StartsWith(s, p) == Len(p) <= Len(s) /\ SubSeq(s, 1, Len(p)) = p

\* s.replace(p, r, 1)
ReplaceFirst(s, p, r) ==
    LET i == Find(s, p)
    IN  IF i = 0 THEN s ELSE Take(s, i - 1) \o r \o Drop(s, i - 1 + Len(p))

RECURSIVE ReplaceAll(_, _, _)
\* s.replace(p, r) for a non-empty p
ReplaceAll(s, p, r) ==
    LET i == Find(s, p)
    IN  IF i = 0 THEN s
        ELSE Take(s, i - 1) \o r \o ReplaceAll(Drop(s, i - 1 + Len(p)), p, r)

\* str.isalpha() of an ASCII character
IsAlpha(c) == c \in (65..90) \cup (97..122)

\* range(len(s) - 1), counted from 1; empty for the empty string.
AdjacentPositions(s) == IF Len(s) = 0 THEN {} ELSE 1..(Len(s) - 1)

\* c + (1 << bit): addition in place of exclusive or.
FlipBitMutant(c, bit) == c + 2 ^ bit

\* c ^ (1 << bit)
FlipBit(c, bit) ==
    LET w == 2 ^ bit
    IN  IF (c \div w) % 2 = 1 THEN c - w ELSE c + w

\* Optional[T]: None is the empty sequence, a value x is <<x>>.
None == << >>
Some(x) == <<x>>

(***************************************************************************)
(* Data classes.                                                           *)
(***************************************************************************)
\* A dict with no key.
EmptyDict == << >>

\* DomainVariant(original_domain, variant_domain, technique, technique_detail)
\* with the dataclass's defaults for the analysis fields.
DomainVariant(original_domain, variant_domain, technique, technique_detail) ==
    [original_domain  |-> original_domain,
     variant_domain   |-> variant_domain,
     technique        |-> technique,
     technique_detail |-> technique_detail,
     is_registered    |-> FALSE,
     dns_records      |-> EmptyDict,
     whois_data       |-> EmptyDict,
     creation_date    |-> None,
     registrar        |-> None,
     domain_age_days  |-> None,
     trust_level      |-> "unknown",
     risk_score       |-> 0,
     error            |-> None]

\* AnalysisConfig.max_variants's default.
DefaultMaxVariants == 1000
\* AnalysisConfig.trust_threshold_days's default.
DefaultThreshold == 730
\* AnalysisConfig.threads's default.
DefaultThreads == 10

(***************************************************************************)
(* HomographGenerator._parse_domain, the branch taken when tldextract is   *)
(* not installed.                                                          *)
(***************************************************************************)
\* s.split(sep)[1] when sep occurs in s
SplitSecond(s, sep) ==
    LET rest == Drop(s, Find(s, sep) - 1 + Len(sep))
        j    == Find(rest, sep)
    IN  IF j = 0 THEN rest ELSE Take(rest, j - 1)

\* s.split(sep)[0] when sep occurs in s
SplitFirst(s, sep) == Take(s, Find(s, sep) - 1)

\* The last position of character c in s, 0 when absent.
FindLast(s, c) ==
    LET hits == {i \in 1..Len(s) : s[i] = c}
    IN  IF hits = {} THEN 0 ELSE CHOOSE i \in hits : \A j \in hits : j <= i

\* Returns <<name, tld>>.
parse_domain(target) ==
    LET d0 == Strip(Lower(target))
        \* "://"
        d1 == IF Contains(d0, <<58, 47, 47>>) THEN SplitSecond(d0, <<58, 47, 47>>) ELSE d0
        \* "/"
        d2 == IF Contains(d1, <<47>>) THEN SplitFirst(d1, <<47>>) ELSE d1
        \* "www."
        d3 == IF StartsWith(d2, <<119, 119, 119, 46>>) THEN Drop(d2, 4) ELSE d2
        dot == FindLast(d3, 46)
    IN  IF dot # 0
        THEN <<Take(d3, dot - 1), Drop(d3, dot)>>
        ELSE <<d3, <<99, 111, 109>> >>

(***************************************************************************)
(* HomographGenerator._add_variant.                                        *)
(***************************************************************************)
\* f"{name}.{tld}"
FullDomain(name, tld) == name \o <<46>> \o tld

\* One _add_variant call: its four arguments.  The detail string is kept as
\* its format and the interpolated values.
Call(name, tld, technique, fmt, args) ==
    [name |-> name, tld |-> tld, technique |-> technique,
     detail |-> [fmt |-> fmt, args |-> args]]

IsOriginalMutant(self, full_domain) == FALSE

\* full_domain == f"{self.domain_name}.{self.tld}"
IsOriginal(self, full_domain) ==
    full_domain = FullDomain(self.domain_name, self.tld)

AlreadyGeneratedMutant(generated, full_domain) == FALSE

\* full_domain in self.generated_variants
AlreadyGenerated(generated, full_domain) == full_domain \in generated

CapReachedMutant(self, generated) ==
    Cardinality(generated) > self.max_variants

\* len(self.generated_variants) >= self.config.max_variants
CapReached(self, generated) ==
    Cardinality(generated) >= self.max_variants

\* self is [domain_name, tld, max_variants]; generated is
\* self.generated_variants before the call.  Returns the Optional variant
\* and self.generated_variants after the call.
add_variant(self, generated, call) ==
    LET name        == Strip(Lower(call.name))
        tld         == Strip(Lower(call.tld))
        full_domain == FullDomain(name, tld)
        rejected    == [variant |-> None, generated |-> generated]
    IN  IF name = <<>> \/ tld = <<>> THEN rejected
        ELSE IF IsOriginal(self, full_domain) THEN rejected
        ELSE IF AlreadyGenerated(generated, full_domain) THEN rejected
        ELSE IF CapReached(self, generated) THEN rejected
        ELSE [variant   |-> Some(DomainVariant(
                                FullDomain(self.domain_name, self.tld),
                                full_domain, call.technique, call.detail)),
              generated |-> generated \cup {full_domain}]

\* One iteration of a technique method's loop: the _add_variant call and
\* `if variant: variants.append(variant)`.  st is the method's list and the
\* emitted set so far.
AddOne(self, st, call) ==
    LET r == add_variant(self, st.generated, call)
    IN  [variants  |-> IF r.variant # None
                       THEN Append(st.variants, r.variant[1]) ELSE st.variants,
         generated |-> r.generated]

RECURSIVE AddRange(_, _, _, _, _)
\* The loop over calls[lo..hi] in order, evaluated by halves to keep the
\* evaluation shallow: the second half starts from the first half's state.
\* (TLC computes an operator's argument where it is first used; the test
\* left = left, always true, has it computed before the second half.)
AddRange(self, calls, lo, hi, st) ==
    IF lo > hi THEN st
    ELSE IF lo = hi THEN AddOne(self, st, calls[lo])
    ELSE LET mid  == (lo + hi) \div 2
             left == AddRange(self, calls, lo, mid, st)
         IN  IF left = left
             THEN AddRange(self, calls, mid + 1, hi, left)
             ELSE left

\* A technique method's loop over all its calls.
AddAll(self, calls, generated, variants) ==
    AddRange(self, calls, 1, Len(calls),
             [variants |-> variants, generated |-> generated])

(***************************************************************************)
(* The sixteen technique methods: the _add_variant calls each makes, in    *)
(* the order it makes them, for self.domain_name = name, self.tld = tld.   *)
(***************************************************************************)
\* name[:i] + r + name[i+1:] for the character at position i
Substitute(name, i, r) == Take(name, i - 1) \o r \o Drop(name, i)

\* _generate_homograph, without the optional confusable_homoglyphs library
HomographCalls(name, tld) ==
    Flatten([i \in 1..Len(name) |->
        IF name[i] \in DOMAIN HOMOGRAPH_MAPPINGS
        THEN LET reps == Take(HOMOGRAPH_MAPPINGS[name[i]], 3)
             IN  [k \in 1..Len(reps) |->
                    Call(Substitute(name, i, reps[k]), tld, "homograph",
                         "Replaced '{}' with '{}'", << <<name[i]>>, reps[k] >>)]
        ELSE << >>])

\* _generate_leetspeak
LeetspeakCalls(name, tld) ==
    Flatten([i \in 1..Len(name) |->
        IF name[i] \in DOMAIN LEETSPEAK_MAPPINGS
        THEN LET reps == LEETSPEAK_MAPPINGS[name[i]]
             IN  [k \in 1..Len(reps) |->
                    Call(Substitute(name, i, reps[k]), tld, "leetspeak",
                         "Replaced '{}' with '{}'", << <<name[i]>>, reps[k] >>)]
        ELSE << >>])

\* _generate_typo
TypoCalls(name, tld) ==
    Flatten([i \in 1..Len(name) |->
        IF name[i] \in DOMAIN KEYBOARD_TYPOS
        THEN LET reps == Take(KEYBOARD_TYPOS[name[i]], 2)
             IN  [k \in 1..Len(reps) |->
                    Call(Substitute(name, i, reps[k]), tld, "typo",
                         "Keyboard typo: '{}' -> '{}'", << <<name[i]>>, reps[k] >>)]
        ELSE << >>])

\* _generate_phonetic
PhoneticCalls(name, tld) ==
    Flatten([p \in 1..Len(PHONETIC_SUBSTITUTIONS) |->
        LET pattern == PHONETIC_SUBSTITUTIONS[p].pattern
            reps    == PHONETIC_SUBSTITUTIONS[p].replacements
        IN  IF Contains(name, pattern)
            THEN [k \in 1..Len(reps) |->
                    Call(ReplaceFirst(name, pattern, reps[k]), tld, "phonetic",
                         "Phonetic: '{}' -> '{}'", <<pattern, reps[k]>>)]
            ELSE << >>])

\* _generate_repetition
RepetitionCalls(name, tld) ==
    Flatten([i \in 1..Len(name) |->
        IF IsAlpha(name[i])
        THEN << Call(Substitute(name, i, <<name[i], name[i]>>), tld, "repetition",
                     "Doubled '{}' at position {}", << <<name[i]>>, Str(i - 1) >>) >>
        ELSE << >>])

\* _generate_omission
OmissionCalls(name, tld) ==
    Flatten([i \in 1..Len(name) |->
        LET new_name == Substitute(name, i, << >>)
        IN  IF new_name # << >>
            THEN << Call(new_name, tld, "omission",
                         "Omitted '{}' at position {}", << <<name[i]>>, Str(i - 1) >>) >>
            ELSE << >>])

\* 'aeiourstnl'
InsertionChars == <<97, 101, 105, 111, 117, 114, 115, 116, 110, 108>>

\* _generate_insertion
InsertionCalls(name, tld) ==
    Flatten([i \in 1..(Len(name) + 1) |->
        [k \in 1..Len(InsertionChars) |->
            Call(Take(name, i - 1) \o <<InsertionChars[k]>> \o Drop(name, i - 1),
                 tld, "insertion", "Inserted '{}' at position {}",
                 << <<InsertionChars[k]>>, Str(i - 1) >>)]])

\* _generate_transposition
TranspositionCalls(name, tld) ==
    [i \in AdjacentPositions(name) |->
        Call(Take(name, i - 1) \o <<name[i + 1], name[i]>> \o Drop(name, i + 1),
             tld, "transposition", "Swapped '{}' and '{}'",
             << <<name[i]>>, <<name[i + 1]>> >>)]

\* _generate_hyphenation
HyphenationCalls(name, tld) ==
    [i \in AdjacentPositions(name) |->
        Call(Take(name, i) \o <<45>> \o Drop(name, i), tld, "hyphenation",
             "Hyphen inserted at position {}", << Str(i) >>)]
    \o (IF Contains(name, <<45>>)
        THEN << Call(ReplaceAll(name, <<45>>, << >>), tld, "hyphenation",
                     "Removed hyphens", << >>) >>
        ELSE << >>)

TldCallsMutant(name, tld) ==
    Flatten([k \in 1..Len(ALTERNATIVE_TLDS) |->
        IF ALTERNATIVE_TLDS[k] # tld
        THEN << Call(name, ALTERNATIVE_TLDS[k], "tld",
                     "Changed TLD from '.{}' to '.{}'", <<tld, ALTERNATIVE_TLDS[k]>>) >>
        ELSE << >>])

\* _generate_tld
TldCalls(name, tld) ==
    Flatten([k \in 1..Len(ALTERNATIVE_TLDS) |->
        IF ALTERNATIVE_TLDS[k] # tld
        THEN << Call(name, ALTERNATIVE_TLDS[k], "tld_swap",
                     "Changed TLD from '.{}' to '.{}'", <<tld, ALTERNATIVE_TLDS[k]>>) >>
        ELSE << >>])

\* _generate_prefix; prefix.rstrip('-.')
PrefixCalls(name, tld) ==
    [k \in 1..Len(PHISHING_PREFIXES) |->
        Call(RStripChars(PHISHING_PREFIXES[k], {45, 46}) \o name, tld, "prefix",
             "Added prefix '{}'", << PHISHING_PREFIXES[k] >>)]

\* _generate_suffix; suffix.lstrip('-')
SuffixCalls(name, tld) ==
    [k \in 1..Len(PHISHING_SUFFIXES) |->
        Call(name \o LStripChars(PHISHING_SUFFIXES[k], {45}), tld, "suffix",
             "Added suffix '{}'", << PHISHING_SUFFIXES[k] >>)]

\* 'aeiou'
Vowels == <<97, 101, 105, 111, 117>>

\* _generate_vowel_swap
VowelSwapCalls(name, tld) ==
    Flatten([i \in 1..Len(name) |->
        IF \E k \in 1..Len(Vowels) : Vowels[k] = name[i]
        THEN Flatten([k \in 1..Len(Vowels) |->
                IF Vowels[k] # name[i]
                THEN << Call(Substitute(name, i, <<Vowels[k]>>), tld, "vowel_swap",
                             "Swapped '{}' with '{}'", << <<name[i]>>, <<Vowels[k]>> >>) >>
                ELSE << >>])
        ELSE << >>])

\* Only a pair that is a whole run (no equal neighbour on either side).
DoubleCharCallsMutant(name, tld) ==
    Flatten([i \in AdjacentPositions(name) |->
        IF /\ name[i] = name[i + 1]
           /\ i > 1 => name[i - 1] # name[i]
           /\ i + 2 <= Len(name) => name[i + 2] # name[i]
        THEN << Call(Take(name, i - 1) \o Drop(name, i), tld, "double_char",
                     "Reduced double '{}'", << <<name[i]>> >>) >>
        ELSE << >>])

\* _generate_double_char
DoubleCharCalls(name, tld) ==
    Flatten([i \in AdjacentPositions(name) |->
        IF name[i] = name[i + 1]
        THEN << Call(Take(name, i - 1) \o Drop(name, i), tld, "double_char",
                     "Reduced double '{}'", << <<name[i]>> >>) >>
        ELSE << >>])

\* _generate_bitsquatting
BitsquattingCalls(name, tld) ==
    Flatten([i \in 1..Len(name) |->
        Flatten([b \in 1..8 |->
            LET flipped == FlipBit(name[i], b - 1)
            IN  IF 97 <= flipped /\ flipped <= 122 /\ flipped # name[i]
                THEN << Call(Substitute(name, i, <<flipped>>), tld, "bitsquatting",
                             "Bit flip: '{}' -> '{}'", << <<name[i]>>, <<flipped>> >>) >>
                ELSE << >>])])

\* ['login', 'secure', 'account', 'auth', 'my', 'portal']
Subdomains ==
    << <<108, 111, 103, 105, 110>>, <<115, 101, 99, 117, 114, 101>>,
       <<97, 99, 99, 111, 117, 110, 116>>, <<97, 117, 116, 104>>,
       <<109, 121>>, <<112, 111, 114, 116, 97, 108>> >>

\* _generate_subdomain
SubdomainCalls(name, tld) ==
    [k \in 1..Len(Subdomains) |->
        Call(name \o <<46>> \o Subdomains[k], <<99, 111, 109>>, "subdomain",
             "Domain as subdomain: {}.com", << Subdomains[k] >>)]

(***************************************************************************)
(* DomainAnalyzer: the network as the analyzer sees it.                    *)
(***************************************************************************)
\* The record types check_dns queries, in its order.
RecordTypes == <<"A", "AAAA", "MX", "NS">>

\* How one resolver query can end: with answers, with one of the four
\* exceptions check_dns passes over, or with any other exception.
QueryOutcomes ==
    {"answer", "NXDOMAIN", "NoAnswer", "NoNameservers", "Timeout", "error"}

\* What the resolver does for a domain: record type -> outcome.
DnsWorlds ==
    {[t \in Range(RecordTypes) |-> "NXDOMAIN"],
     [t \in Range(RecordTypes) |-> "Timeout"],
     [t \in Range(RecordTypes) |-> IF t = "A" THEN "error" ELSE "NoNameservers"],
     [t \in Range(RecordTypes) |-> IF t = "AAAA" THEN "NoAnswer" ELSE "answer"],
     [t \in Range(RecordTypes) |-> IF t = "NS" THEN "answer" ELSE "NoAnswer"],
     [t \in Range(RecordTypes) |->
        CASE t = "A" -> "NXDOMAIN" [] t = "AAAA" -> "NoAnswer"
          [] t = "MX" -> "NoNameservers" [] OTHER -> "Timeout"]}

\* str(rdata) of the one answer of a query for record type t
Rdata(t) == <<"rdata", t>>

\* Ticks (the clock's unit) per day, and datetime.now() in ticks: midday of
\* day Today.
TicksPerDay == 2
Today == 1000
Now == Today * TicksPerDay + 1

\* A naive or timezone-aware datetime at a tick.
DateTime(tick, aware) == [kind |-> "datetime", tick |-> tick, aware |-> aware]
\* A value that is no datetime: str(v) either reads as %Y-%m-%d of a day or
\* does not (day = None); an empty string is falsy.
Other(day, falsy) == [kind |-> "other", day |-> day, falsy |-> falsy]
\* A list of such values.
ListOf(items) == [kind |-> "list", items |-> items]

\* bool(v) of an Optional datetime/other value
Truthy(v) == v # None /\ ~(v[1].kind = "other" /\ v[1].falsy)

\* The keys of the WHOIS answer analyze_variant keeps.
RetainedKeys ==
    {"domain_name", "registrar", "creation_date", "expiration_date",
     "name_servers", "org", "country"}

\* str(v) of a WHOIS value: a text, not the value.
PyStr(v) == [str |-> v]

(***************************************************************************)
(* DomainAnalyzer.check_dns, get_whois, calculate_trust_level.             *)
(***************************************************************************)
\* is_registered = True outside the try block.
check_dnsRegisteredMutant(libs, world) ==
    LET answered == IF libs.DNS_AVAILABLE
                    THEN {t \in Range(RecordTypes) : world[t] = "answer"}
                    ELSE {t \in {"A"} : world[t] = "answer"}
    IN  [is_registered |-> TRUE,
         records       |-> [t \in answered |-> <<Rdata(t)>>]]

\* records[record_type] = [] in the handler of the four passed exceptions.
check_dnsRecordsMutant(libs, world) ==
    LET answered == IF libs.DNS_AVAILABLE
                    THEN {t \in Range(RecordTypes) : world[t] = "answer"}
                    ELSE {t \in {"A"} : world[t] = "answer"}
        passed   == IF libs.DNS_AVAILABLE
                    THEN {t \in Range(RecordTypes) : world[t] \notin {"answer", "error"}}
                    ELSE {}
    IN  [is_registered |-> answered # {},
         records       |-> [t \in answered \cup passed |->
                               IF t \in answered THEN <<Rdata(t)>> ELSE << >>]]

\* world is the resolver's behaviour for the domain.  Returns is_registered
\* and records.  Without dnspython only socket.gethostbyname is tried, which
\* resolves when the A query would be answered.
check_dns(libs, world) ==
    LET answered == IF libs.DNS_AVAILABLE
                    THEN {t \in Range(RecordTypes) : world[t] = "answer"}
                    ELSE {t \in {"A"} : world[t] = "answer"}
    IN  [is_registered |-> answered # {},
         records       |-> [t \in answered |-> <<Rdata(t)>>]]

\* w is what whois.whois(domain) does: raise, or return an entry with a
\* creation_date attribute, a registrar attribute and its dict items.
\* Returns creation_date, registrar, whois_data.
get_whois(libs, w) ==
    LET failed == [creation_date |-> None, registrar |-> None,
                   whois_data |-> EmptyDict]
        cd     == w.creation_date
        first  == IF cd # None /\ cd[1].kind = "list"
                  THEN (IF cd[1].items # << >> THEN Some(cd[1].items[1]) ELSE None)
                  ELSE cd
        \* datetime.strptime(str(creation_date), '%Y-%m-%d'), None if it raises
        parsed == IF Truthy(first) /\ first[1].kind # "datetime"
                  THEN (IF first[1].day # None
                        THEN Some(DateTime(first[1].day[1] * TicksPerDay, FALSE))
                        ELSE None)
                  ELSE first
    IN  IF ~libs.WHOIS_AVAILABLE THEN failed
        ELSE IF w.raises THEN failed
        ELSE [creation_date |-> parsed,
              registrar     |-> w.registrar,
              whois_data    |-> w.items]

calculate_trust_levelNoAgeMutant(cfg, domain_age_days) ==
    IF domain_age_days = None THEN <<"unknown", 0>>
    ELSE LET age       == domain_age_days[1]
             threshold == cfg.trust_threshold_days
         IN  IF age < 30 THEN <<"critical", 95>>
             ELSE IF age < 90 THEN <<"high_risk", 85>>
             ELSE IF age < 180 THEN <<"suspicious", 70>>
             ELSE IF age < 365 THEN <<"low_trust", 55>>
             ELSE IF age < threshold THEN <<"moderate", 35>>
             ELSE <<"established", 15>>

calculate_trust_levelMutant(cfg, domain_age_days) ==
    IF domain_age_days = None THEN <<"unknown", 50>>
    ELSE LET age == domain_age_days[1]
         IN  IF age <= 30 THEN <<"critical", 95>>
             ELSE IF age <= 90 THEN <<"high_risk", 85>>
             ELSE IF age <= 180 THEN <<"suspicious", 70>>
             ELSE IF age <= 365 THEN <<"low_trust", 55>>
             ELSE IF age <= cfg.trust_threshold_days THEN <<"moderate", 35>>
             ELSE <<"established", 15>>

\* Returns <<trust_level, risk_score>>.
calculate_trust_level(cfg, domain_age_days) ==
    IF domain_age_days = None THEN <<"unknown", 50>>
    ELSE LET age       == domain_age_days[1]
             threshold == cfg.trust_threshold_days
         IN  IF age < 30 THEN <<"critical", 95>>
             ELSE IF age < 90 THEN <<"high_risk", 85>>
             ELSE IF age < 180 THEN <<"suspicious", 70>>
             ELSE IF age < 365 THEN <<"low_trust", 55>>
             ELSE IF age < threshold THEN <<"moderate", 35>>
             ELSE <<"established", 15>>
(***************************************************************************)
(* State.                                                                  *)
(***************************************************************************)
VARIABLES
    config,     \* the AnalysisConfig (immutable after construction)
    libs,       \* the module's DNS_AVAILABLE and WHOIS_AVAILABLE flags
    gen,        \* the HomographGenerator instances: instance id -> its fields
                \* and the locals of its generate_all call
    an,         \* the analyze_variant calls: call id -> the DomainVariant it
                \* was given, its position, and what the resolver and
                \* the WHOIS lookup did for it
    run         \* the analyze_all call and main's use of its result: the
                \* position, the results list, the list as main sorted it,
                \* and the calls a worker began after an interrupt

vars == <<config, libs, gen, an, run>>

\* AnalysisConfig(target_domain, ...) with the dataclass's defaults.
AnalysisConfig(target_domain, techniques, max_variants) ==
    [target_domain        |-> target_domain,
     trust_threshold_days |-> DefaultThreshold,
     max_variants         |-> max_variants,
     check_dns            |-> TRUE,
     check_whois          |-> TRUE,
     threads              |-> DefaultThreads,
     techniques           |-> techniques]

\* The order with double_char in omission's place and omission in its.
AllTechniquesMutant ==
    <<"homograph", "leetspeak", "typo", "phonetic",
      "repetition", "double_char", "insertion", "transposition",
      "hyphenation", "tld", "prefix", "suffix", "vowel_swap",
      "omission", "bitsquatting", "subdomain">>

\* The technique names generate_all substitutes for 'all', in its order.
AllTechniques ==
    <<"homograph", "leetspeak", "typo", "phonetic",
      "repetition", "omission", "insertion", "transposition",
      "hyphenation", "tld", "prefix", "suffix", "vowel_swap",
      "double_char", "bitsquatting", "subdomain">>

\* Characters of the target names: o (a letter every mapping table has, and a
\* vowel) and - (which hyphenation removes and repetition skips).
Alphabet == {111, 45}

SeqsUpTo(S, n) == UNION {[1..k -> S] : k \in 0..n}

Names == SeqsUpTo(Alphabet, MaxLen) \ {<< >>}

\* com (in ALTERNATIVE_TLDS) and eu (not in it)
TLDs == {<<99, 111, 109>>, <<101, 117>>}

\* Targets of which nothing is left once the scheme, the path and a leading
\* www. are stripped: '', 'www.' and 'http://'.
EmptyTargets ==
    {<< >>, <<119, 119, 119, 46>>, <<104, 116, 116, 112, 58, 47, 47>>}

Targets == {FullDomain(n, t) : n \in Names, t \in TLDs} \cup EmptyTargets

\* A name no _generate_ method exists for.
UnknownTechnique == "typosquat"

\* The names the longer configured lists are drawn from: techniques whose
\* candidates overlap (omission and double_char; typo, vowel_swap and
\* bitsquatting), tld, and the unknown name.
ListTokens ==
    {"omission", "double_char", "typo", "vowel_swap", "bitsquatting", "tld",
     UnknownTechnique}

\* The configured techniques lists: ['all'], every technique alone, and
\* every list of up to MaxTechs of the ListTokens.
TechniqueLists ==
    {<<"all">>} \cup {<<t>> : t \in Range(AllTechniques)}
    \cup SeqsUpTo(ListTokens, MaxTechs)

Caps == (0..MaxCap) \cup {DefaultMaxVariants}

\* HomographGenerator.__init__
NewGenerator(cfg) ==
    LET parsed == parse_domain(cfg.target_domain)
    IN  [domain_name        |-> parsed[1],
         tld                |-> parsed[2],
         max_variants       |-> cfg.max_variants,
         generated_variants |-> {},
         calls              |-> 0,
         pc                 |-> "idle",
         techniques         |-> << >>,
         idx                |-> 0,
         variants           |-> << >>,
         failed             |-> {},
         result             |-> << >>]

GenConfigs ==
    {AnalysisConfig(t, l, c) : t \in Targets, l \in TechniqueLists, c \in Caps}

\* One generator built from the configuration.
Init ==
    /\ config \in GenConfigs
    /\ libs = [DNS_AVAILABLE |-> TRUE, WHOIS_AVAILABLE |-> TRUE]
    /\ gen = [g \in {1} |-> NewGenerator(config)]
    /\ an = << >>
    /\ run = << >>

\* Two generators built from the same configuration.
InitTwoRuns ==
    /\ config \in GenConfigs
    /\ libs = [DNS_AVAILABLE |-> TRUE, WHOIS_AVAILABLE |-> TRUE]
    /\ gen = [g \in {1, 2} |-> NewGenerator(config)]
    /\ an = << >>
    /\ run = << >>

(***************************************************************************)
(* HomographGenerator.generate_all, one action per step of its loop.       *)
(***************************************************************************)
\* The instances run one after the other: instance g's generate_all is
\* called once every earlier instance's has returned.
Turn(g) == \A h \in DOMAIN gen : h < g => gen[h].pc = "returned"

\* The technique names sorted into the listed order, each once.
GenerateAllMutant(g) ==
    /\ gen[g].pc = "idle"
    /\ Turn(g)
    /\ gen' = [gen EXCEPT ![g] =
                [@ EXCEPT !.pc = "loop",
                          !.calls = @ + 1,
                          !.variants = << >>,
                          !.idx = 1,
                          !.techniques =
                              IF "all" \in Range(config.techniques)
                              THEN AllTechniques
                              ELSE SelectSeq(AllTechniques,
                                     LAMBDA t : t \in Range(config.techniques))]]
    /\ UNCHANGED <<config, libs, an, run>>

\* generate_all is called: variants = [], 'all' is expanded.
GenerateAll(g) ==
    /\ gen[g].pc = "idle"
    /\ Turn(g)
    /\ gen' = [gen EXCEPT ![g] =
                [@ EXCEPT !.pc = "loop",
                          !.calls = @ + 1,
                          !.variants = << >>,
                          !.idx = 1,
                          !.techniques =
                              IF "all" \in Range(config.techniques)
                              THEN AllTechniques ELSE config.techniques]]
    /\ UNCHANGED <<config, libs, an, run>>

EmittedSetMutant(g) == UNION {gen[h].generated_variants : h \in DOMAIN gen}

\* self.generated_variants of instance g
EmittedSet(g) == gen[g].generated_variants

\* The loop's current technique is `technique`.
AtTechnique(g, technique) ==
    /\ gen[g].pc = "loop"
    /\ gen[g].idx <= Len(gen[g].techniques)
    /\ gen[g].techniques[gen[g].idx] = technique

\* An emitted set per method, and a later variant of a string replacing
\* the earlier one.
RunMethodMutant(g, calls) ==
    LET r    == AddAll(gen[g], calls, {}, << >>)
        kept == SelectSeq(gen[g].variants,
                          LAMBDA v : v.variant_domain \notin r.generated)
    IN  /\ gen' = [gen EXCEPT ![g] =
                    [@ EXCEPT !.generated_variants = @ \cup r.generated,
                              !.variants = kept \o r.variants,
                              !.idx = @ + 1]]
        /\ UNCHANGED <<config, libs, an, run>>

\* results = method(); variants.extend(v for v in results if v is not None)
RunMethod(g, calls) ==
    LET r == AddAll(gen[g], calls, EmittedSet(g), << >>)
    IN  /\ gen' = [gen EXCEPT ![g] =
                    [@ EXCEPT !.generated_variants = r.generated,
                              !.variants = @ \o r.variants,
                              !.idx = @ + 1]]
        /\ UNCHANGED <<config, libs, an, run>>

generate_homograph(g) ==
    AtTechnique(g, "homograph")
    /\ RunMethod(g, HomographCalls(gen[g].domain_name, gen[g].tld))
generate_leetspeak(g) ==
    AtTechnique(g, "leetspeak")
    /\ RunMethod(g, LeetspeakCalls(gen[g].domain_name, gen[g].tld))
generate_typo(g) ==
    AtTechnique(g, "typo")
    /\ RunMethod(g, TypoCalls(gen[g].domain_name, gen[g].tld))
generate_phonetic(g) ==
    AtTechnique(g, "phonetic")
    /\ RunMethod(g, PhoneticCalls(gen[g].domain_name, gen[g].tld))
generate_repetition(g) ==
    AtTechnique(g, "repetition")
    /\ RunMethod(g, RepetitionCalls(gen[g].domain_name, gen[g].tld))
generate_omission(g) ==
    AtTechnique(g, "omission")
    /\ RunMethod(g, OmissionCalls(gen[g].domain_name, gen[g].tld))
generate_insertion(g) ==
    AtTechnique(g, "insertion")
    /\ RunMethod(g, InsertionCalls(gen[g].domain_name, gen[g].tld))
generate_transposition(g) ==
    AtTechnique(g, "transposition")
    /\ RunMethod(g, TranspositionCalls(gen[g].domain_name, gen[g].tld))
generate_hyphenation(g) ==
    AtTechnique(g, "hyphenation")
    /\ RunMethod(g, HyphenationCalls(gen[g].domain_name, gen[g].tld))
generate_tld(g) ==
    AtTechnique(g, "tld")
    /\ RunMethod(g, TldCalls(gen[g].domain_name, gen[g].tld))
generate_prefix(g) ==
    AtTechnique(g, "prefix")
    /\ RunMethod(g, PrefixCalls(gen[g].domain_name, gen[g].tld))
generate_suffix(g) ==
    AtTechnique(g, "suffix")
    /\ RunMethod(g, SuffixCalls(gen[g].domain_name, gen[g].tld))
generate_vowel_swap(g) ==
    AtTechnique(g, "vowel_swap")
    /\ RunMethod(g, VowelSwapCalls(gen[g].domain_name, gen[g].tld))
generate_double_char(g) ==
    AtTechnique(g, "double_char")
    /\ RunMethod(g, DoubleCharCalls(gen[g].domain_name, gen[g].tld))
generate_bitsquatting(g) ==
    AtTechnique(g, "bitsquatting")
    /\ RunMethod(g, BitsquattingCalls(gen[g].domain_name, gen[g].tld))
generate_subdomain(g) ==
    AtTechnique(g, "subdomain")
    /\ RunMethod(g, SubdomainCalls(gen[g].domain_name, gen[g].tld))

\* getattr(self, f'_generate_{technique}', None) is None: the name is skipped.
NoSuchMethod(g) ==
    /\ gen[g].pc = "loop"
    /\ gen[g].idx <= Len(gen[g].techniques)
    /\ gen[g].techniques[gen[g].idx] \notin Range(AllTechniques)
    /\ gen' = [gen EXCEPT ![g] = [@ EXCEPT !.idx = @ + 1]]
    /\ UNCHANGED <<config, libs, an, run>>

\* The loop is over: return variants.
GenerateAllReturn(g) ==
    /\ gen[g].pc = "loop"
    /\ gen[g].idx > Len(gen[g].techniques)
    /\ gen' = [gen EXCEPT ![g] =
                [@ EXCEPT !.pc = "returned", !.result = gen[g].variants]]
    /\ UNCHANGED <<config, libs, an, run>>

Next ==
    \/ \E g \in DOMAIN gen : GenerateAll(g)
    \/ \E g \in DOMAIN gen : generate_homograph(g)
    \/ \E g \in DOMAIN gen : generate_leetspeak(g)
    \/ \E g \in DOMAIN gen : generate_typo(g)
    \/ \E g \in DOMAIN gen : generate_phonetic(g)
    \/ \E g \in DOMAIN gen : generate_repetition(g)
    \/ \E g \in DOMAIN gen : generate_omission(g)
    \/ \E g \in DOMAIN gen : generate_insertion(g)
    \/ \E g \in DOMAIN gen : generate_transposition(g)
    \/ \E g \in DOMAIN gen : generate_hyphenation(g)
    \/ \E g \in DOMAIN gen : generate_tld(g)
    \/ \E g \in DOMAIN gen : generate_prefix(g)
    \/ \E g \in DOMAIN gen : generate_suffix(g)
    \/ \E g \in DOMAIN gen : generate_vowel_swap(g)
    \/ \E g \in DOMAIN gen : generate_double_char(g)
    \/ \E g \in DOMAIN gen : generate_bitsquatting(g)
    \/ \E g \in DOMAIN gen : generate_subdomain(g)
    \/ \E g \in DOMAIN gen : NoSuchMethod(g)
    \/ \E g \in DOMAIN gen : GenerateAllReturn(g)

Spec == Init /\ [][Next]_vars

\* Two generators, run one after the other.
SpecTwoRuns == InitTwoRuns /\ [][Next]_vars

(***************************************************************************)
(* DomainAnalyzer.analyze_variant, as analyze_all's worker threads run it: *)
(* the calls interleave, each on its own DomainVariant.                    *)
(***************************************************************************)
\* Number of variants handed to the analyzer.
NumVariants == 2

\* The variants handed to the analyzer: the first NumVariants the tld
\* technique generates for oo.eu, with the defaults of a new DomainVariant.
FreshVariants ==
    LET self == [domain_name |-> <<111, 111>>, tld |-> <<101, 117>>,
                 max_variants |-> NumVariants]
    IN  AddAll(self, TldCalls(self.domain_name, self.tld), {}, << >>).variants

\* The configured thresholds tried: int(0.5 * 365.25) (analyzer_api with
\* half a year), one day more than the hard-coded 365, and the default.
Thresholds == {182, 366, DefaultThreshold}

AnalyzeConfigs ==
    {[AnalysisConfig(<<111, 111, 46, 101, 117>>, <<"all">>, DefaultMaxVariants)
        EXCEPT !.trust_threshold_days = d, !.check_dns = a, !.check_whois = b] :
     d \in Thresholds, a \in BOOLEAN, b \in BOOLEAN}

\* The ages (in days) the WHOIS answers are made to give: both sides of
\* every boundary, and one in the future.
AgeSamples(threshold) ==
    {-1, 29, 30, 89, 90, 179, 180, 364, 365, threshold - 1, threshold}

Text(t) == [kind |-> "text", text |-> t]

\* A WHOIS entry with the given creation_date and registrar attributes.
Entry(cd, registrar) ==
    [raises        |-> FALSE,
     creation_date |-> cd,
     registrar     |-> registrar,
     items         |-> [k \in {"domain_name", "status"}
                              \cup (IF cd # None THEN {"creation_date"} ELSE {})
                              \cup (IF registrar # None THEN {"registrar"} ELSE {})
                          |-> IF k = "creation_date" THEN cd[1]
                              ELSE IF k = "registrar" THEN registrar[1]
                              ELSE Text(k)]]

\* What whois.whois(domain) may do.
WhoisAnswers(threshold) ==
    LET reg == Some(Text("registrar"))
        at(age, r) == Now - (age * TicksPerDay + r)
    IN  {[raises |-> TRUE, creation_date |-> None, registrar |-> None,
          items |-> EmptyDict]}
        \cup {Entry(None, None), Entry(None, reg)}
        \* an empty string, a text that is no date, a date as text
        \cup {Entry(Some(Other(None, TRUE)), reg),
              Entry(Some(Other(None, FALSE)), reg),
              Entry(Some(Other(Some(Today - 45), FALSE)), reg)}
        \* naive datetimes, at both ends of the day
        \cup {Entry(Some(DateTime(at(age, r), FALSE)), reg) :
                age \in AgeSamples(threshold), r \in {0, TicksPerDay - 1}}
        \* a timezone-aware datetime
        \cup {Entry(Some(DateTime(at(45, 0), TRUE)), reg)}
        \* lists: empty, and one whose first element counts
        \cup {Entry(Some(ListOf(<< >>)), reg),
              Entry(Some(ListOf(<<DateTime(at(45, 0), FALSE),
                                  DateTime(at(400, 0), FALSE)>>)), reg)}

InitAnalyze ==
    /\ config \in AnalyzeConfigs
    /\ libs \in [DNS_AVAILABLE : BOOLEAN, WHOIS_AVAILABLE : BOOLEAN]
    /\ gen = << >>
    /\ run = << >>
    /\ an = [i \in 1..NumVariants |->
                [variant |-> FreshVariants[i], pc |-> "submitted",
                 dns |-> None, whois |-> None]]

\* The DNS step taken whatever check_dns says.
AnalyzeCheckDnsMutant(i) ==
    /\ an[i].pc = "submitted"
    /\ \E world \in DnsWorlds :
         LET r == check_dns(libs, world)
         IN  an' = [an EXCEPT ![i] =
                     [@ EXCEPT !.pc = "dns_checked",
                               !.dns = Some(world),
                               !.variant.is_registered = r.is_registered,
                               !.variant.dns_records = r.records]]
    /\ UNCHANGED <<config, libs, gen, run>>

\* if self.config.check_dns: variant.is_registered, variant.dns_records =
\* self.check_dns(variant.variant_domain)
AnalyzeCheckDns(i) ==
    /\ an[i].pc = "submitted"
    /\ config.check_dns
    /\ \E world \in DnsWorlds :
         LET r == check_dns(libs, world)
         IN  an' = [an EXCEPT ![i] =
                     [@ EXCEPT !.pc = "dns_checked",
                               !.dns = Some(world),
                               !.variant.is_registered = r.is_registered,
                               !.variant.dns_records = r.records]]
    /\ UNCHANGED <<config, libs, gen, run>>

\* check_dns is off: the variant keeps its is_registered and dns_records.
AnalyzeSkipDns(i) ==
    /\ an[i].pc = "submitted"
    /\ ~config.check_dns
    /\ an' = [an EXCEPT ![i] = [@ EXCEPT !.pc = "dns_checked"]]
    /\ UNCHANGED <<config, libs, gen, run>>

\* The variant after lines 812-821: the three WHOIS fields assigned.
WithWhois(variant, r) ==
    [variant EXCEPT
        !.creation_date = r.creation_date,
        !.registrar     = r.registrar,
        !.whois_data    = [k \in DOMAIN r.whois_data \cap RetainedKeys |->
                              PyStr(r.whois_data[k])]]

\* datetime.now() - creation_date raises TypeError when creation_date is
\* timezone-aware (datetime.now() is naive).
SubtractionRaises(creation_date) == creation_date[1].aware

\* (datetime.now() - creation_date).days: timedelta.days is the floor.
AgeDays(creation_date) == (Now - creation_date[1].tick) \div TicksPerDay

\* str(e) of that TypeError
AwareError == "can't subtract offset-naive and offset-aware datetimes"

\* What the call whois.whois(domain) did, None when get_whois makes no call.
Lookup(w) == IF libs.WHOIS_AVAILABLE THEN Some(w) ELSE None

\* The WHOIS branch taken without the test of is_registered.
AnalyzeWhoisMutant(i) ==
    /\ an[i].pc = "dns_checked"
    /\ config.check_whois
    /\ \E w \in WhoisAnswers(config.trust_threshold_days) :
         LET r  == get_whois(libs, w)
             v1 == WithWhois(an[i].variant, r)
             v2 == IF Truthy(r.creation_date)
                   THEN [v1 EXCEPT !.domain_age_days = Some(AgeDays(r.creation_date))]
                   ELSE v1
             tr == calculate_trust_level(config, v2.domain_age_days)
         IN  /\ Truthy(r.creation_date) => ~SubtractionRaises(r.creation_date)
             /\ an' = [an EXCEPT ![i] =
                        [@ EXCEPT !.pc = "returned", !.whois = Lookup(w),
                                  !.variant = [v2 EXCEPT !.trust_level = tr[1],
                                                         !.risk_score = tr[2]]]]
    /\ UNCHANGED <<config, libs, gen, run>>

\* The WHOIS branch clearing the age when the answer has no creation date.
AnalyzeWhoisStaleMutant(i) ==
    /\ an[i].pc = "dns_checked"
    /\ an[i].variant.is_registered /\ config.check_whois
    /\ \E w \in WhoisAnswers(config.trust_threshold_days) :
         LET r  == get_whois(libs, w)
             v1 == WithWhois(an[i].variant, r)
             v2 == IF Truthy(r.creation_date)
                   THEN [v1 EXCEPT !.domain_age_days = Some(AgeDays(r.creation_date))]
                   ELSE [v1 EXCEPT !.domain_age_days = None]
             tr == calculate_trust_level(config, v2.domain_age_days)
         IN  /\ Truthy(r.creation_date) => ~SubtractionRaises(r.creation_date)
             /\ an' = [an EXCEPT ![i] =
                        [@ EXCEPT !.pc = "returned", !.whois = Lookup(w),
                                  !.variant = [v2 EXCEPT !.trust_level = tr[1],
                                                         !.risk_score = tr[2]]]]
    /\ UNCHANGED <<config, libs, gen, run>>

\* The branch `if variant.is_registered and self.config.check_whois` when no
\* exception is raised: WHOIS fields, age, trust level; return variant.
AnalyzeWhois(i) ==
    /\ an[i].pc = "dns_checked"
    /\ an[i].variant.is_registered /\ config.check_whois
    /\ \E w \in WhoisAnswers(config.trust_threshold_days) :
         LET r  == get_whois(libs, w)
             v1 == WithWhois(an[i].variant, r)
             v2 == IF Truthy(r.creation_date)
                   THEN [v1 EXCEPT !.domain_age_days = Some(AgeDays(r.creation_date))]
                   ELSE v1
             tr == calculate_trust_level(config, v2.domain_age_days)
         IN  /\ Truthy(r.creation_date) => ~SubtractionRaises(r.creation_date)
             /\ an' = [an EXCEPT ![i] =
                        [@ EXCEPT !.pc = "returned", !.whois = Lookup(w),
                                  !.variant = [v2 EXCEPT !.trust_level = tr[1],
                                                         !.risk_score = tr[2]]]]
    /\ UNCHANGED <<config, libs, gen, run>>

\* The same branch when the subtraction raises: the WHOIS fields are
\* assigned, `except Exception as e: variant.error = str(e)`; return variant.
AnalyzeWhoisRaises(i) ==
    /\ an[i].pc = "dns_checked"
    /\ an[i].variant.is_registered /\ config.check_whois
    /\ \E w \in WhoisAnswers(config.trust_threshold_days) :
         LET r  == get_whois(libs, w)
             v1 == WithWhois(an[i].variant, r)
         IN  /\ Truthy(r.creation_date) /\ SubtractionRaises(r.creation_date)
             /\ an' = [an EXCEPT ![i] =
                        [@ EXCEPT !.pc = "returned", !.whois = Lookup(w),
                                  !.variant = [v1 EXCEPT !.error = Some(AwareError)]]]
    /\ UNCHANGED <<config, libs, gen, run>>

\* elif variant.is_registered: unknown, 50; return variant.
AnalyzeNoWhois(i) ==
    /\ an[i].pc = "dns_checked"
    /\ ~(an[i].variant.is_registered /\ config.check_whois)
    /\ an[i].variant.is_registered
    /\ an' = [an EXCEPT ![i] =
                [@ EXCEPT !.pc = "returned",
                          !.variant.trust_level = "unknown",
                          !.variant.risk_score = 50]]
    /\ UNCHANGED <<config, libs, gen, run>>

\* else: unregistered, 0; return variant.
AnalyzeUnregistered(i) ==
    /\ an[i].pc = "dns_checked"
    /\ ~an[i].variant.is_registered
    /\ an' = [an EXCEPT ![i] =
                [@ EXCEPT !.pc = "returned",
                          !.variant.trust_level = "unregistered",
                          !.variant.risk_score = 0]]
    /\ UNCHANGED <<config, libs, gen, run>>

NextAnalyze ==
    \/ \E i \in DOMAIN an : AnalyzeCheckDns(i)
    \/ \E i \in DOMAIN an : AnalyzeSkipDns(i)
    \/ \E i \in DOMAIN an : AnalyzeWhois(i)
    \/ \E i \in DOMAIN an : AnalyzeWhoisRaises(i)
    \/ \E i \in DOMAIN an : AnalyzeNoWhois(i)
    \/ \E i \in DOMAIN an : AnalyzeUnregistered(i)

\* analyze_variant on NumVariants fresh variants.
SpecAnalyze == InitAnalyze /\ [][NextAnalyze]_vars

(***************************************************************************)
(* The generator's contract.                                               *)
(***************************************************************************)
\* getattr(self, f'_generate_{technique}', None): the calls the technique's
\* method makes, none for a name without a method.
MethodCalls(technique, name, tld) ==
    CASE technique = "homograph"     -> HomographCalls(name, tld)
      [] technique = "leetspeak"     -> LeetspeakCalls(name, tld)
      [] technique = "typo"          -> TypoCalls(name, tld)
      [] technique = "phonetic"      -> PhoneticCalls(name, tld)
      [] technique = "repetition"    -> RepetitionCalls(name, tld)
      [] technique = "omission"      -> OmissionCalls(name, tld)
      [] technique = "insertion"     -> InsertionCalls(name, tld)
      [] technique = "transposition" -> TranspositionCalls(name, tld)
      [] technique = "hyphenation"   -> HyphenationCalls(name, tld)
      [] technique = "tld"           -> TldCalls(name, tld)
      [] technique = "prefix"        -> PrefixCalls(name, tld)
      [] technique = "suffix"        -> SuffixCalls(name, tld)
      [] technique = "vowel_swap"    -> VowelSwapCalls(name, tld)
      [] technique = "double_char"   -> DoubleCharCalls(name, tld)
      [] technique = "bitsquatting"  -> BitsquattingCalls(name, tld)
      [] technique = "subdomain"     -> SubdomainCalls(name, tld)
      [] OTHER                       -> << >>

\* The techniques a configuration enables.
Enabled(cfg) ==
    IF "all" \in Range(cfg.techniques)
    THEN Range(AllTechniques) ELSE Range(cfg.techniques)

\* The candidate strings the enabled techniques offer to _add_variant for
\* generator g, as _add_variant normalises them.
Offered(g) ==
    UNION {{FullDomain(Strip(Lower(c.name)), Strip(Lower(c.tld))) :
              c \in Range(MethodCalls(t, gen[g].domain_name, gen[g].tld))} :
           t \in Enabled(config)}

\* Those with an empty name or TLD.
Invalid(g) ==
    UNION {{FullDomain(Strip(Lower(c.name)), Strip(Lower(c.tld))) :
              c \in {d \in Range(MethodCalls(t, gen[g].domain_name, gen[g].tld)) :
                       Strip(Lower(d.name)) = << >> \/ Strip(Lower(d.tld)) = << >>}} :
           t \in Enabled(config)}

Original(g) == FullDomain(gen[g].domain_name, gen[g].tld)

Returned(g) == gen[g].pc = "returned"

\* The variant_domain strings of a list of variants.
Domains(variants) == {variants[i].variant_domain : i \in 1..Len(variants)}

\* C1: when generate_all has returned, no two variants of the returned list
\* have the same variant_domain.
C1_DistinctDomains ==
    \A g \in DOMAIN gen :
        Returned(g) =>
            \A i, j \in 1..Len(gen[g].result) :
                i # j => gen[g].result[i].variant_domain
                           # gen[g].result[j].variant_domain

\* A run has returned in which one technique offered the same candidate at
\* two positions of its loop, and the candidate is in the output.
C1_Witness ==
    \E g \in DOMAIN gen :
        /\ Returned(g)
        /\ \E t \in Enabled(config) :
             LET calls == MethodCalls(t, gen[g].domain_name, gen[g].tld)
             IN  \E i, j \in 1..Len(calls) :
                    /\ i < j
                    /\ calls[i].name = calls[j].name
                    /\ calls[i].tld = calls[j].tld
                    /\ FullDomain(calls[i].name, calls[i].tld)
                         \in Domains(gen[g].result)

\* C2: no returned variant's variant_domain is the parsed original name.tld.
C2_NeverOriginal ==
    \A g \in DOMAIN gen :
        Returned(g) => Original(g) \notin Domains(gen[g].result)

\* A run has returned variants after a technique offered the original
\* itself: by transposing two equal adjacent characters, or as the tld
\* technique's list holds the original TLD.
C2_Witness ==
    \E g \in DOMAIN gen :
        /\ Returned(g)
        /\ gen[g].result # << >>
        /\ \/ /\ "transposition" \in Enabled(config)
              /\ \E c \in Range(TranspositionCalls(gen[g].domain_name, gen[g].tld)) :
                     FullDomain(c.name, c.tld) = Original(g)
           \/ /\ "tld" \in Enabled(config)
              /\ \E c \in Range(TldCalls(gen[g].domain_name, gen[g].tld)) :
                     FullDomain(c.name, c.tld) = Original(g)

\* C3: the list generate_all builds never holds more than max_variants
\* variants (so once it holds max_variants, no technique adds to it), and a
\* returned list shorter than max_variants holds every candidate the enabled
\* techniques offered, except the original and the ones with an empty name
\* or TLD; the returned list and the emitted set hold the same strings.
C3_CapAndExhaustion ==
    \A g \in DOMAIN gen :
        /\ Len(gen[g].variants) <= gen[g].max_variants
        /\ Returned(g) =>
             /\ Len(gen[g].result) <= gen[g].max_variants
             /\ Domains(gen[g].result) = gen[g].generated_variants
             /\ Len(gen[g].result) < gen[g].max_variants =>
                  (Offered(g) \ Invalid(g)) \ {Original(g)}
                      \subseteq Domains(gen[g].result)

\* A run has returned exactly max_variants (at least one) variants and a
\* candidate of an enabled technique is left out because of the cap.
C3_Witness ==
    \E g \in DOMAIN gen :
        /\ Returned(g)
        /\ gen[g].max_variants > 0
        /\ Len(gen[g].result) = gen[g].max_variants
        /\ ~((Offered(g) \ Invalid(g)) \ {Original(g)}
                \subseteq Domains(gen[g].result))

\* The (variant_domain, technique, technique_detail) of a list of variants.
Triples(variants) ==
    [i \in 1..Len(variants) |->
        <<variants[i].variant_domain, variants[i].technique,
          variants[i].technique_detail>>]

\* C4: two fresh generators built from the same configuration return the
\* same sequence of (variant_domain, technique, technique_detail).
C4_SameSequence ==
    \A g, h \in DOMAIN gen :
        (Returned(g) /\ Returned(h)) =>
            Triples(gen[g].result) = Triples(gen[h].result)

\* Both generators have returned, each at least two variants.
C4_Witness ==
    /\ DOMAIN gen = {1, 2}
    /\ Returned(1) /\ Returned(2)
    /\ Len(gen[1].result) >= 2
    /\ Len(gen[2].result) >= 2

\* The tag each technique's method puts on its variants: the technique's
\* name, except for tld.
TagOf(technique) == IF technique = "tld" THEN "tld_swap" ELSE technique

\* C5 (as stated): every returned variant's technique tag is one of the
\* sixteen technique names, tld among them.
C5_TagIsTechniqueName ==
    \A g \in DOMAIN gen :
        Returned(g) =>
            \A i \in 1..Len(gen[g].result) :
                gen[g].result[i].technique \in Range(AllTechniques)

\* C5 (amended): every returned variant's technique tag is the tag of an
\* enabled technique: its name, and tld_swap for the tld technique.
C5_TagIsTechniqueTag ==
    \A g \in DOMAIN gen :
        Returned(g) =>
            \A i \in 1..Len(gen[g].result) :
                gen[g].result[i].technique \in {TagOf(t) : t \in Enabled(config)}
                                                \cap {TagOf(t) : t \in Range(AllTechniques)}

\* A run of the tld technique has returned a variant tagged tld_swap.
C5_Witness ==
    \E g \in DOMAIN gen :
        /\ Returned(g)
        /\ "tld" \in Enabled(config)
        /\ \E i \in 1..Len(gen[g].result) :
               gen[g].result[i].technique = "tld_swap"

(***************************************************************************)
(* The analyzer's contract.                                                *)
(***************************************************************************)
AnalysisReturned(i) == an[i].pc = "returned"

\* The variant has a known age.
AgeKnown(i) == an[i].variant.domain_age_days # None

Age(i) == an[i].variant.domain_age_days[1]

Classified(i) == <<an[i].variant.trust_level, an[i].variant.risk_score>>

\* The buckets as the claim lists them, for 365 < threshold.
ListedBucket(age, threshold) ==
    IF age <= 29 THEN <<"critical", 95>>
    ELSE IF age <= 89 THEN <<"high_risk", 85>>
    ELSE IF age <= 179 THEN <<"suspicious", 70>>
    ELSE IF age <= 364 THEN <<"low_trust", 55>>
    ELSE IF age <= threshold - 1 THEN <<"moderate", 35>>
    ELSE <<"established", 15>>

\* C6: with a threshold above 365, a returned registered variant with a
\* known age has the trust level and risk score of the listed bucket of its
\* age (critical to 29, high_risk to 89, suspicious to 179, low_trust to 364,
\* moderate to threshold - 1, established from threshold); and
\* calculate_trust_level gives the listed bucket for every age up to
\* threshold + 1 (evaluated where no analysis has started).
C6_BucketBoundaries ==
    config.trust_threshold_days > 365 =>
        /\ \A i \in DOMAIN an :
             (AnalysisReturned(i) /\ an[i].variant.is_registered /\ AgeKnown(i)) =>
                 Classified(i) = ListedBucket(Age(i), config.trust_threshold_days)
        /\ (DOMAIN an # {} /\ \A i \in DOMAIN an : an[i].pc = "submitted") =>
             \A age \in 0..(config.trust_threshold_days + 1) :
                 calculate_trust_level(config, Some(age))
                     = ListedBucket(age, config.trust_threshold_days)

\* Two registered variants have returned under a threshold above 366, one
\* aged threshold - 1 and moderate, the other aged threshold and established.
C6_Witness ==
    /\ config.trust_threshold_days > 366
    /\ \E i, j \in DOMAIN an :
        /\ AnalysisReturned(i) /\ an[i].variant.is_registered /\ AgeKnown(i)
        /\ AnalysisReturned(j) /\ an[j].variant.is_registered /\ AgeKnown(j)
        /\ Age(i) = config.trust_threshold_days - 1
        /\ Classified(i) = <<"moderate", 35>>
        /\ Age(j) = config.trust_threshold_days
        /\ Classified(j) = <<"established", 15>>

\* C7: for every configured threshold, a returned registered variant whose
\* known age is at least the threshold is established with risk score 15.
C7_EstablishedFromThreshold ==
    \A i \in DOMAIN an :
        (/\ AnalysisReturned(i) /\ an[i].variant.is_registered /\ AgeKnown(i)
         /\ Age(i) >= config.trust_threshold_days) =>
            Classified(i) = <<"established", 15>>

\* C8: two returned variants (analysed under the same threshold) that agree
\* on is_registered and domain_age_days agree on trust_level and risk_score.
C8_FunctionOfInputs ==
    \A i, j \in DOMAIN an :
        (/\ AnalysisReturned(i) /\ AnalysisReturned(j)
         /\ an[i].variant.is_registered = an[j].variant.is_registered
         /\ an[i].variant.domain_age_days = an[j].variant.domain_age_days) =>
            Classified(i) = Classified(j)

\* The WHOIS lookup of analysis i was made and raised.
WhoisRaised(i) == an[i].whois # None /\ an[i].whois[1].raises

\* C9: a returned variant that DNS found registered and whose WHOIS lookup
\* raised has its error field set, and is still registered.
C9_ErrorOnWhoisFailure ==
    \A i \in DOMAIN an :
        (AnalysisReturned(i) /\ an[i].variant.is_registered /\ WhoisRaised(i)) =>
            an[i].variant.error # None

\* C10: a returned registered variant whose WHOIS lookup raised, was not
\* made (check_whois off, or no WHOIS library), or yielded no creation_date
\* is unknown with risk score 50.
C10_UnknownWithoutCreationDate ==
    \A i \in DOMAIN an :
        (/\ AnalysisReturned(i)
         /\ an[i].variant.is_registered
         /\ \/ WhoisRaised(i)
            \/ ~config.check_whois
            \/ ~libs.WHOIS_AVAILABLE
            \/ an[i].variant.creation_date = None) =>
            Classified(i) = <<"unknown", 50>>

\* A variant has returned
\* after its WHOIS lookup raised, and another after a lookup that answered
\* without a creation_date.
C10_Witness ==
    \E i, j \in DOMAIN an :
        /\ AnalysisReturned(i) /\ an[i].variant.is_registered /\ WhoisRaised(i)
        /\ AnalysisReturned(j) /\ an[j].variant.is_registered
        /\ an[j].whois # None /\ ~an[j].whois[1].raises
        /\ an[j].variant.creation_date = None
        /\ Classified(i) = <<"unknown", 50>>
        /\ Classified(j) = <<"unknown", 50>>


\* The outcomes of a resolver query that check_dns passes over.
NotPresent == {"NXDOMAIN", "NoAnswer", "NoNameservers", "Timeout"}

\* Analysis i made the four resolver queries and each ended not-present.
AllNotPresent(i) ==
    /\ libs.DNS_AVAILABLE
    /\ an[i].dns # None
    /\ \A t \in Range(RecordTypes) : an[i].dns[1][t] \in NotPresent

\* C11: a returned variant whose four resolver queries each ended in
\* NXDOMAIN, NoAnswer, NoNameservers or Timeout is not registered, is
\* unregistered with risk score 0, has no dns_records, no whois_data and no
\* error.
C11_NotPresentIsUnregistered ==
    \A i \in DOMAIN an :
        (AnalysisReturned(i) /\ AllNotPresent(i)) =>
            /\ ~an[i].variant.is_registered
            /\ Classified(i) = <<"unregistered", 0>>
            /\ DOMAIN an[i].variant.dns_records = {}
            /\ DOMAIN an[i].variant.whois_data = {}
            /\ an[i].variant.error = None

\* A variant has returned whose four queries ended in the four different
\* not-present outcomes.
C11_Witness ==
    \E i \in DOMAIN an :
        /\ AnalysisReturned(i) /\ AllNotPresent(i)
        /\ {an[i].dns[1][t] : t \in Range(RecordTypes)} = NotPresent

\* The fields an unregistered variant must have empty.
NothingKnown(i) ==
    /\ DOMAIN an[i].variant.dns_records = {}
    /\ DOMAIN an[i].variant.whois_data = {}
    /\ an[i].variant.domain_age_days = None

\* C12 (as stated): in every state of a variant, is_registered = false
\* implies no dns_records, no whois_data, no age, and unregistered with risk
\* score 0.
C12_UnregisteredInEveryState ==
    \A i \in DOMAIN an :
        ~an[i].variant.is_registered =>
            NothingKnown(i) /\ Classified(i) = <<"unregistered", 0>>

\* C12 (amended): in every state of a fresh variant, is_registered = false
\* implies no dns_records, no whois_data, no age and risk score 0; its
\* trust_level is unregistered once analyze_variant has returned it and
\* unknown (the default) before.
C12_UnregisteredOnceAnalysed ==
    \A i \in DOMAIN an :
        ~an[i].variant.is_registered =>
            /\ NothingKnown(i)
            /\ Classified(i) = IF AnalysisReturned(i)
                               THEN <<"unregistered", 0>> ELSE <<"unknown", 0>>

\* One variant has returned unregistered after its resolver queries, while
\* another is still as the generator created it.
C12_Witness ==
    \E i, j \in DOMAIN an :
        /\ AnalysisReturned(i) /\ an[i].dns # None
        /\ ~an[i].variant.is_registered
        /\ an[i].variant.trust_level = "unregistered"
        /\ an[j].pc = "submitted"
        /\ an[j].variant = FreshVariants[j]

\* C13: the age of a returned variant, when known, is not negative and is
\* floor((now - creation_date) / 1 day).
C13_AgeIsFloorNotNegative ==
    \A i \in DOMAIN an :
        (AnalysisReturned(i) /\ AgeKnown(i)) =>
            /\ Age(i) >= 0
            /\ Age(i) * TicksPerDay <= Now - an[i].variant.creation_date[1].tick
            /\ Now - an[i].variant.creation_date[1].tick < (Age(i) + 1) * TicksPerDay

(***************************************************************************)
(* DomainAnalyzer.analyze_all and main's use of its result.  The executor  *)
(* runs analyze_variant on the submitted variants with config.threads      *)
(* worker threads; the calling thread collects the futures as they         *)
(* complete; main sorts the returned list.                                 *)
(***************************************************************************)
\* Largest --threads value tried.
MaxThreads == 2

\* One threshold (the pool does not read it), every combination of the two
\* check flags, and 1..MaxThreads worker threads.
PoolConfigs ==
    {[c EXCEPT !.threads = n] :
        c \in {d \in AnalyzeConfigs : d.trust_threshold_days = DefaultThreshold},
        n \in 1..MaxThreads}

\* futures = {executor.submit(self.analyze_variant, v): v for v in variants}:
\* every variant is a work item in the executor's queue; results = [].
InitPool ==
    /\ config \in PoolConfigs
    /\ libs \in [DNS_AVAILABLE : BOOLEAN, WHOIS_AVAILABLE : BOOLEAN]
    /\ gen = << >>
    /\ an = [i \in 1..NumVariants |->
                [variant |-> FreshVariants[i], pc |-> "queued",
                 dns |-> None, whois |-> None]]
    /\ run = [pc |-> "collecting", results |-> << >>, sorted |-> << >>,
              late |-> {}, hasty |-> {}, now |-> 0, wake |-> 0,
              worker |-> << >>, done_at |-> << >>]

\* The work item's analyze_variant call has begun and has not returned.
Running(i) == an[i].pc \in {"submitted", "dns_checked"}

\* time.sleep(0.1) in the collecting loop, in clock ticks.
ThrottleTicks == 1

\* A pool with a thread per submitted item.
IdleWorkersMutant == DOMAIN an

\* ThreadPoolExecutor(max_workers=self.config.threads): the executor has at
\* most max_workers worker threads, each running one work item at a time.
\* The threads that run no item.
IdleWorkers ==
    {w \in 1..config.threads :
        \A j \in DOMAIN an : Running(j) => run.worker[j] # w}

\* The worker that takes item i starts it a whole throttle delay after the
\* end of every item it ran before (an item that returned since the last
\* tick of the clock ended at the present time).
Throttled(w) ==
    \A j \in DOMAIN run.worker :
        (run.worker[j] = w /\ an[j].pc = "returned") =>
            /\ j \in DOMAIN run.done_at
            /\ run.now - run.done_at[j] >= ThrottleTicks

\* A worker thread takes the oldest item of the queue and calls
\* analyze_variant on it, as soon as it is idle.  Nothing stops the workers
\* after an interrupt of the calling thread; run.late records the items
\* begun after it, run.hasty the items begun by a worker less than a
\* throttle delay after it ended another.
WorkerStart(i) ==
    /\ run.pc \in {"collecting", "interrupted"}
    /\ an[i].pc = "queued"
    /\ \A j \in DOMAIN an : j < i => an[j].pc # "queued"
    /\ \E w \in IdleWorkers :
         run' = [run EXCEPT
                   !.late   = IF run.pc = "interrupted" THEN @ \cup {i} ELSE @,
                   !.hasty  = IF Throttled(w) THEN @ ELSE @ \cup {i},
                   !.worker = [k \in DOMAIN @ \cup {i} |->
                                 IF k = i THEN w ELSE @[k]]]
    /\ an' = [an EXCEPT ![i] = [@ EXCEPT !.pc = "submitted"]]
    /\ UNCHANGED <<config, libs, gen>>

\* Time passes while the calling thread sleeps.  The analyses that returned
\* since the last tick are stamped with the time at which they returned.
Tick ==
    /\ run.pc \in {"collecting", "interrupted"}
    /\ run.now < run.wake
    /\ run' = [run EXCEPT
                 !.now = @ + 1,
                 !.done_at = [k \in DOMAIN @ \cup {j \in DOMAIN an : an[j].pc = "returned"}
                                |-> IF k \in DOMAIN @ THEN @[k] ELSE run.now]]
    /\ UNCHANGED <<config, libs, gen, an>>

\* The future of item i has been yielded by as_completed.
Collected(i) == \E k \in DOMAIN run.results : run.results[k] = i

\* for future in as_completed(futures): result = future.result();
\* results.append(result); time.sleep(0.1).  analyze_variant returns its
\* variant on every path, so result() never raises.
Collect(i) ==
    /\ run.pc = "collecting"
    /\ an[i].pc = "returned"
    /\ ~Collected(i)
    /\ run.now >= run.wake
    /\ run' = [run EXCEPT !.results = Append(@, i),
                          !.wake = run.now + ThrottleTicks]
    /\ UNCHANGED <<config, libs, gen, an>>

\* as_completed ending at the first completed future.
ExhaustedMutant == \E i \in DOMAIN an : Collected(i)

\* as_completed has yielded every future.
Exhausted == \A i \in DOMAIN an : Collected(i)

\* The loop ends, the with block shuts the executor down; return results.
AnalyzeAllReturn ==
    /\ run.pc = "collecting"
    /\ Exhausted
    /\ run.now >= run.wake
    /\ run' = [run EXCEPT !.pc = "returned"]
    /\ UNCHANGED <<config, libs, gen, an>>

\* The key of main's sort.
RiskOf(i) == an[i].variant.risk_score

\* list.sort(key=risk_score, reverse=True): descending by key, elements of
\* equal key in the order they had (the sort is stable).
RECURSIVE SortByRisk(_)
SortByRisk(results) ==
    IF results = << >> THEN << >>
    ELSE LET n    == Len(results)
             done == SortByRisk(SubSeq(results, 1, n - 1))
             x    == results[n]
             at   == Cardinality({k \in DOMAIN done : RiskOf(done[k]) >= RiskOf(x)})
         IN  SubSeq(done, 1, at) \o <<x>> \o SubSeq(done, at + 1, Len(done))

\* main: results.sort(key=lambda x: x.risk_score, reverse=True)
MainSort ==
    /\ run.pc = "returned"
    /\ run' = [run EXCEPT !.pc = "sorted", !.sorted = SortByRisk(run.results)]
    /\ UNCHANGED <<config, libs, gen, an>>

\* The caller cancels: KeyboardInterrupt is raised in the calling thread
\* while it waits in as_completed or sleeps.  No handler exists; the loop is
\* left and the with block's exit runs executor.shutdown(wait=True).
Interrupt ==
    /\ run.pc = "collecting"
    /\ run' = [run EXCEPT !.pc = "interrupted"]
    /\ UNCHANGED <<config, libs, gen, an>>

\* shutdown(wait=True) returns once every submitted item has run; the
\* exception then leaves analyze_all, and results is dropped.
AnalyzeAllRaise ==
    /\ run.pc = "interrupted"
    /\ \A i \in DOMAIN an : an[i].pc = "returned"
    /\ run' = [run EXCEPT !.pc = "raised"]
    /\ UNCHANGED <<config, libs, gen, an>>

NextPool ==
    \/ \E i \in DOMAIN an : WorkerStart(i)
    \/ Tick
    \/ \E i \in DOMAIN an : AnalyzeCheckDns(i)
    \/ \E i \in DOMAIN an : AnalyzeSkipDns(i)
    \/ \E i \in DOMAIN an : AnalyzeWhois(i)
    \/ \E i \in DOMAIN an : AnalyzeWhoisRaises(i)
    \/ \E i \in DOMAIN an : AnalyzeNoWhois(i)
    \/ \E i \in DOMAIN an : AnalyzeUnregistered(i)
    \/ \E i \in DOMAIN an : Collect(i)
    \/ AnalyzeAllReturn
    \/ MainSort
    \/ Interrupt
    \/ AnalyzeAllRaise

\* analyze_all on NumVariants fresh variants, then main's sort.
SpecPool == InitPool /\ [][NextPool]_vars

(***************************************************************************)
(* Properties of analyze_all and of main's sorted list.                    *)
(***************************************************************************)
DomainOf(i) == an[i].variant.variant_domain

\* a < b for strings: the order of their code point sequences.
StrLess(a, b) ==
    \E k \in 1..Len(b) :
        /\ \A j \in 1..(k - 1) : j <= Len(a) /\ a[j] = b[j]
        /\ k > Len(a) \/ a[k] < b[k]

\* C14: the list main has sorted is in descending risk_score order, and of
\* two neighbours with equal risk_score the one with the smaller
\* variant_domain comes first (so the order does not depend on the order in
\* which the pool completed the analyses).
C14_TiesByDomain ==
    run.pc = "sorted" =>
        \A k \in 1..(Len(run.sorted) - 1) :
            LET a == run.sorted[k]
                b == run.sorted[k + 1]
            IN  \/ RiskOf(a) > RiskOf(b)
                \/ RiskOf(a) = RiskOf(b) /\ StrLess(DomainOf(a), DomainOf(b))

\* analyze_variant's try block raised for this call (the subtraction of a
\* timezone-aware creation_date).
AnalysisRaised(i) ==
    /\ an[i].whois # None
    /\ LET r == get_whois(libs, an[i].whois[1])
       IN  Truthy(r.creation_date) /\ SubtractionRaises(r.creation_date)

\* C15: the list analyze_all returns holds every submitted variant exactly
\* once, each with its analysis finished; a variant whose analysis raised is
\* in it with its error field set.
C15_OneRecordPerVariant ==
    run.pc \in {"returned", "sorted"} =>
        /\ Len(run.results) = Cardinality(DOMAIN an)
        /\ \A i \in DOMAIN an :
             /\ Cardinality({k \in DOMAIN run.results : run.results[k] = i}) = 1
             /\ AnalysisReturned(i)
             /\ AnalysisRaised(i) => an[i].variant.error # None

\* analyze_all has returned a list in which one variant's analysis raised
\* and another's did not.
C15_Witness ==
    /\ run.pc = "returned"
    /\ \E i, j \in DOMAIN an :
         /\ AnalysisRaised(i) /\ an[i].variant.error = Some(AwareError)
         /\ ~AnalysisRaised(j) /\ an[j].variant.error = None
         /\ Collected(i) /\ Collected(j)

\* C16: the number of analyze_variant calls in progress never exceeds
\* config.threads.
C16_AtMostThreadsRunning ==
    Cardinality({i \in DOMAIN an : Running(i)}) <= config.threads

\* Every worker thread is busy and an item waits in the queue.
C16_Witness ==
    /\ Cardinality({i \in DOMAIN an : Running(i)}) = config.threads
    /\ \E i \in DOMAIN an : an[i].pc = "queued"

\* C17: after the caller's cancellation no worker begins another variant,
\* and analyze_all returns (it does not raise).
C17_CancelStopsAndReturns ==
    /\ run.late = {}
    /\ run.pc # "raised"

(***************************************************************************)
(* Termination of analyze_all.  The worker threads and the calling thread  *)
(* are scheduled; a DNS query ends within resolver.lifetime (without       *)
(* dnspython, when the system resolver gives up); a WHOIS lookup is a call *)
(* of whois.whois(domain) to which no timeout is passed, so nothing in the *)
(* program makes it end.  Without the whois library no lookup is made.     *)
(***************************************************************************)
SpecPoolFair ==
    /\ InitPool /\ [][NextPool]_vars
    /\ WF_vars(\E i \in DOMAIN an : WorkerStart(i))
    /\ WF_vars(Tick)
    /\ WF_vars(\E i \in DOMAIN an : AnalyzeCheckDns(i))
    /\ WF_vars(\E i \in DOMAIN an : AnalyzeSkipDns(i))
    /\ WF_vars(\E i \in DOMAIN an : ~libs.WHOIS_AVAILABLE /\ AnalyzeWhois(i))
    /\ WF_vars(\E i \in DOMAIN an : AnalyzeNoWhois(i))
    /\ WF_vars(\E i \in DOMAIN an : AnalyzeUnregistered(i))
    /\ WF_vars(\E i \in DOMAIN an : Collect(i))
    /\ WF_vars(AnalyzeAllReturn)
    /\ WF_vars(AnalyzeAllRaise)
    /\ WF_vars(MainSort)

\* analyze_all has returned or raised.
AnalyzeAllEnded == run.pc \in {"returned", "sorted", "raised"}

\* C20: every call of analyze_all eventually ends.
C20_AnalyzeAllEnds == <>AnalyzeAllEnded

(***************************************************************************)
(* Properties of the bitsquatting variants.                                *)
(***************************************************************************)
\* The positions of the one bits among the eight low bits of c.
BitsOf(c) == {k \in 0..7 : (c \div 2 ^ k) % 2 = 1}

\* a and b are below 256 and differ in exactly one bit.
OneBitApart(a, b) ==
    /\ a < 256 /\ b < 256
    /\ Cardinality((BitsOf(a) \ BitsOf(b)) \cup (BitsOf(b) \ BitsOf(a))) = 1

\* The variants of generate_all's returned list tagged bitsquatting.
Bitsquats(g) ==
    {gen[g].result[i] : i \in {j \in 1..Len(gen[g].result) :
                                 gen[g].result[j].technique = "bitsquatting"}}

\* C19: a returned variant tagged bitsquatting is as long as the original
\* domain and equal to it (TLD included) except at one position of the name,
\* where it has a letter a-z that differs from the original character in
\* exactly one of the eight low bits.
C19_OneBitOneLetter ==
    \A g \in DOMAIN gen :
        Returned(g) =>
            \A v \in Bitsquats(g) :
                LET d == v.variant_domain
                    o == Original(g)
                IN  /\ Len(d) = Len(o)
                    /\ \E p \in 1..Len(gen[g].domain_name) :
                         /\ \A q \in 1..Len(d) : q # p => d[q] = o[q]
                         /\ d[p] \in 97..122
                         /\ OneBitApart(o[p], d[p])

\* A returned list with a bitsquatting variant of a letter (o -> n, bit 0)
\* and one of a hyphen (- -> m, bit 6).
C19_Witness ==
    \E g \in DOMAIN gen :
        /\ Returned(g)
        /\ \E v, w \in Bitsquats(g) :
             \E p, q \in 1..Len(gen[g].domain_name) :
                /\ Original(g)[p] = 111 /\ v.variant_domain[p] = 110
                /\ Original(g)[q] = 45 /\ w.variant_domain[q] = 109

(***************************************************************************)
(* Properties of the parsing of the target.                                *)
(***************************************************************************)
\* C18: for a target that is empty once stripped, no generator comes to
\* hold a variant (the target is rejected, nothing is generated for it).
C18_EmptyTargetRejected ==
    config.target_domain \in EmptyTargets =>
        \A g \in DOMAIN gen : gen[g].variants = << >> /\ gen[g].result = << >>

(***************************************************************************)
(* Properties of the order in which generate_all runs the techniques.      *)
(***************************************************************************)
\* The technique whose method passes this tag to _add_variant.
NameOf(tag) == IF tag = "tld_swap" THEN "tld" ELSE tag

\* The first position of x in the sequence s (x occurs in s).
FirstIndex(s, x) ==
    CHOOSE i \in 1..Len(s) : s[i] = x /\ \A j \in 1..(i - 1) : s[j] # x

\* The variants of the list lie in blocks, one per technique, and the blocks
\* follow the order the techniques have in `order`.
InOrderOf(variants, order) ==
    \A i, j \in 1..Len(variants) :
        i < j =>
            /\ NameOf(variants[i].technique) \in Range(order)
            /\ NameOf(variants[j].technique) \in Range(order)
            /\ FirstIndex(order, NameOf(variants[i].technique))
                 <= FirstIndex(order, NameOf(variants[j].technique))

\* The list generate_all iterates over.
Iterated(techniques) ==
    IF "all" \in Range(techniques) THEN AllTechniques ELSE techniques

\* C21 (as stated): the variants of the returned list follow the fixed listed
\* order of the techniques (homograph, leetspeak, ..., subdomain), whatever
\* the configured list.
C21_ListedOrder ==
    \A g \in DOMAIN gen :
        Returned(g) => InOrderOf(gen[g].result, AllTechniques)

\* C21 (amended): the variants of the returned list follow the order of the
\* configured list (the listed order when 'all' is in it).
C21_ConfiguredOrder ==
    \A g \in DOMAIN gen :
        Returned(g) => InOrderOf(gen[g].result, Iterated(config.techniques))

\* A returned list whose configured techniques are not in the listed order
\* and have both contributed: tld before omission.
C21_Witness ==
    \E g \in DOMAIN gen :
        /\ Returned(g)
        /\ config.techniques = <<"tld", "omission">>
        /\ \E i, j \in 1..Len(gen[g].result) :
             /\ i < j
             /\ gen[g].result[i].technique = "tld_swap"
             /\ gen[g].result[j].technique = "omission"

(***************************************************************************)
(* Provenance of a candidate several techniques produce.                   *)
(***************************************************************************)
\* The candidate string of an _add_variant call, as the call normalises it.
CandidateOf(c) == FullDomain(Strip(Lower(c.name)), Strip(Lower(c.tld)))

\* The calls the k-th technique of generator g's loop makes.
CallsAt(g, k) ==
    MethodCalls(gen[g].techniques[k], gen[g].domain_name, gen[g].tld)

\* The positions of the loop's list whose technique offers the string d.
Producers(g, d) ==
    {k \in 1..Len(gen[g].techniques) :
        \E c \in Range(CallsAt(g, k)) : CandidateOf(c) = d}

\* The first call of the list that offers d.
FirstCall(calls, d) ==
    calls[CHOOSE i \in 1..Len(calls) :
            /\ CandidateOf(calls[i]) = d
            /\ \A j \in 1..(i - 1) : CandidateOf(calls[j]) # d]

\* C22: a returned variant carries the tag and the detail of the first call
\* of the first-run technique that offers its string, and its string occurs
\* once in the returned list (the later techniques emit nothing for it).
C22_FirstTechniqueWins ==
    \A g \in DOMAIN gen :
        Returned(g) =>
            \A i \in 1..Len(gen[g].result) :
                LET v  == gen[g].result[i]
                    ps == Producers(g, v.variant_domain)
                IN  /\ ps # {}
                    /\ LET k == CHOOSE p \in ps : \A q \in ps : p <= q
                           c == FirstCall(CallsAt(g, k), v.variant_domain)
                       IN  /\ v.technique = c.technique
                           /\ v.technique_detail = c.detail
                    /\ \A j \in 1..Len(gen[g].result) :
                         j # i => gen[g].result[j].variant_domain # v.variant_domain

\* A returned variant whose string two different techniques of the list
\* offer.
C22_Witness ==
    \E g \in DOMAIN gen :
        /\ Returned(g)
        /\ \E i \in 1..Len(gen[g].result) :
             \E p, q \in Producers(g, gen[g].result[i].variant_domain) :
                gen[g].techniques[p] # gen[g].techniques[q]

(***************************************************************************)
(* generate_all when a technique's method raises.  The loop's handler      *)
(* (except Exception as e: logger.warning(...)) drops the method's list;   *)
(* what the method had added to self.generated_variants before it raised   *)
(* stays there.  gen[g].failed records the loop positions that raised.     *)
(***************************************************************************)
\* Most _add_variant calls a method completes before it raises.
MaxRaiseAt == 1

\* Most methods that raise during one generate_all call.
MaxFailures == 1

\* The handler that re-raises: generate_all is left with the exception.
MethodRaisesMutant(g) ==
    /\ gen[g].pc = "loop"
    /\ gen[g].idx <= Len(gen[g].techniques)
    /\ gen[g].techniques[gen[g].idx] \in Range(AllTechniques)
    /\ Cardinality(gen[g].failed) < MaxFailures
    /\ gen' = [gen EXCEPT ![g] =
                [@ EXCEPT !.pc = "raised", !.failed = @ \cup {gen[g].idx}]]
    /\ UNCHANGED <<config, libs, an, run>>

\* try: results = method() raises after n of its _add_variant calls;
\* except Exception as e: logger.warning(...); the loop goes on.
MethodRaises(g) ==
    /\ gen[g].pc = "loop"
    /\ gen[g].idx <= Len(gen[g].techniques)
    /\ gen[g].techniques[gen[g].idx] \in Range(AllTechniques)
    /\ Cardinality(gen[g].failed) < MaxFailures
    /\ LET calls == CallsAt(g, gen[g].idx)
       IN  \E n \in 0..MaxRaiseAt :
             /\ n <= Len(calls)
             /\ LET r == AddAll(gen[g], SubSeq(calls, 1, n), EmittedSet(g), << >>)
                IN  gen' = [gen EXCEPT ![g] =
                             [@ EXCEPT !.generated_variants = r.generated,
                                       !.failed = @ \cup {gen[g].idx},
                                       !.idx = @ + 1]]
    /\ UNCHANGED <<config, libs, an, run>>

NextRaise ==
    \/ \E g \in DOMAIN gen : GenerateAll(g)
    \/ \E g \in DOMAIN gen : generate_homograph(g)
    \/ \E g \in DOMAIN gen : generate_leetspeak(g)
    \/ \E g \in DOMAIN gen : generate_typo(g)
    \/ \E g \in DOMAIN gen : generate_phonetic(g)
    \/ \E g \in DOMAIN gen : generate_repetition(g)
    \/ \E g \in DOMAIN gen : generate_omission(g)
    \/ \E g \in DOMAIN gen : generate_insertion(g)
    \/ \E g \in DOMAIN gen : generate_transposition(g)
    \/ \E g \in DOMAIN gen : generate_hyphenation(g)
    \/ \E g \in DOMAIN gen : generate_tld(g)
    \/ \E g \in DOMAIN gen : generate_prefix(g)
    \/ \E g \in DOMAIN gen : generate_suffix(g)
    \/ \E g \in DOMAIN gen : generate_vowel_swap(g)
    \/ \E g \in DOMAIN gen : generate_double_char(g)
    \/ \E g \in DOMAIN gen : generate_bitsquatting(g)
    \/ \E g \in DOMAIN gen : generate_subdomain(g)
    \/ \E g \in DOMAIN gen : NoSuchMethod(g)
    \/ \E g \in DOMAIN gen : GenerateAllReturn(g)
    \/ \E g \in DOMAIN gen : MethodRaises(g)

\* One generator whose methods may raise.
SpecRaise == Init /\ [][NextRaise]_vars

\* The strings the technique at position k of the loop offers, without the
\* ones _add_variant refuses for an empty name or TLD and the original.
ValidOffers(g, k) ==
    {CandidateOf(c) :
        c \in {d \in Range(CallsAt(g, k)) :
                 /\ Strip(Lower(d.name)) # << >>
                 /\ Strip(Lower(d.tld)) # << >>}} \ {Original(g)}

\* C23: a raising method does not end generate_all.  The loop goes on, and
\* in the returned list every technique that did not raise has its
\* variants: each string it offers is in the list unless the cap was
\* reached or a method that raised had already put it in the emitted set.
C23_FailureIsSkipped ==
    \A g \in DOMAIN gen :
        /\ gen[g].pc \in {"idle", "loop", "returned"}
        /\ Returned(g) =>
             \A k \in (1..Len(gen[g].techniques)) \ gen[g].failed :
                \A d \in ValidOffers(g, k) :
                    \/ d \in Domains(gen[g].result)
                    \/ Cardinality(gen[g].generated_variants) >= gen[g].max_variants
                    \/ \E f \in gen[g].failed : d \in ValidOffers(g, f)

\* generate_all has returned after a method raised, and a technique run
\* after the failing one has a variant in the returned list.
C23_Witness ==
    \E g \in DOMAIN gen :
        /\ Returned(g)
        /\ \E f \in gen[g].failed :
             \E i \in 1..Len(gen[g].result) :
                \E k \in Producers(g, gen[g].result[i].variant_domain) :
                    /\ k > f
                    /\ gen[g].result[i].technique = TagOf(gen[g].techniques[k])
                    /\ gen[g].result[i].variant_domain \notin ValidOffers(g, f)

(***************************************************************************)
(* When analyze_variant looks a domain up in WHOIS.                        *)
(***************************************************************************)
\* get_whois called whois.whois for the variant.
WhoisIssued(i) == an[i].whois # None

\* C24: a WHOIS lookup has been made for a variant only if check_whois is
\* on and the variant's DNS step has run and found it registered; none is
\* made for a variant whose DNS step found nothing.
C24_WhoisOnlyIfRegistered ==
    \A i \in DOMAIN an :
        WhoisIssued(i) =>
            /\ config.check_whois
            /\ config.check_dns
            /\ an[i].dns # None
            /\ check_dns(libs, an[i].dns[1]).is_registered
            /\ an[i].variant.is_registered

\* One variant has been looked up in WHOIS after its DNS step found it, and
\* another, whose DNS step found nothing, has been returned without.
C24_Witness ==
    \E i, j \in DOMAIN an :
        /\ WhoisIssued(i) /\ AnalysisReturned(i)
        /\ ~WhoisIssued(j) /\ AnalysisReturned(j)
        /\ an[j].dns # None /\ ~an[j].variant.is_registered
        /\ config.check_whois

(***************************************************************************)
(* The throttle delay.                                                     *)
(***************************************************************************)
\* C25: no worker starts a variant less than a throttle delay after it has
\* completed another.
C25_WorkerWaitsThrottle == run.hasty = {}

(***************************************************************************)
(* Properties of the double_char variants.                                 *)
(***************************************************************************)
\* The variants of generate_all's returned list tagged double_char.
DoubleChars(g) ==
    {gen[g].result[i] : i \in {j \in 1..Len(gen[g].result) :
                                 gen[g].result[j].technique = "double_char"}}

\* The positions p of the name with name[p] = name[p + 1].
EqualPairs(name) == {p \in AdjacentPositions(name) : name[p] = name[p + 1]}

\* The equal pairs that are a whole run: no equal character before or after.
ExactPairs(name) ==
    {p \in EqualPairs(name) :
        /\ p > 1 => name[p - 1] # name[p]
        /\ p + 2 <= Len(name) => name[p + 2] # name[p]}

\* The domain with the character at position p of the name removed.
Without(g, p) ==
    FullDomain(Take(gen[g].domain_name, p - 1) \o Drop(gen[g].domain_name, p),
               gen[g].tld)

\* C26 (as stated): a returned variant tagged double_char is the name with
\* one character of a run of exactly two identical characters removed.
C26_OnlyRunsOfTwo ==
    \A g \in DOMAIN gen :
        Returned(g) =>
            \A v \in DoubleChars(g) :
                \E p \in ExactPairs(gen[g].domain_name) :
                    v.variant_domain = Without(g, p)

\* C26 (amended): a returned variant tagged double_char is the name with
\* one character of a pair of identical adjacent characters removed, and
\* when double_char is the only technique and the cap is not reached every
\* such pair (those inside longer runs too) has its variant in the list.
C26_EveryEqualPair ==
    \A g \in DOMAIN gen :
        Returned(g) =>
            /\ \A v \in DoubleChars(g) :
                 \E p \in EqualPairs(gen[g].domain_name) :
                     v.variant_domain = Without(g, p)
            /\ (config.techniques = <<"double_char">>
                  /\ Len(gen[g].result) < gen[g].max_variants) =>
                 \A p \in EqualPairs(gen[g].domain_name) :
                     \E v \in DoubleChars(g) : v.variant_domain = Without(g, p)

\* A returned double_char variant of a name that is a run of three.
C26_Witness ==
    \E g \in DOMAIN gen :
        /\ Returned(g)
        /\ gen[g].domain_name = <<111, 111, 111>>
        /\ \E v \in DoubleChars(g) : v.variant_domain = Without(g, 1)

(***************************************************************************)
(* generate_all called more than once on one instance.  The configuration  *)
(* object is the same at every call.                                       *)
(***************************************************************************)
MaxCalls == 2

\* A generator whose emitted set starts empty at every call.
GenerateAllAgainMutant(g) ==
    /\ gen[g].pc = "returned"
    /\ gen[g].calls < MaxCalls
    /\ gen' = [gen EXCEPT ![g] =
                [@ EXCEPT !.pc = "loop",
                          !.calls = @ + 1,
                          !.generated_variants = {},
                          !.variants = << >>,
                          !.idx = 1,
                          !.techniques =
                              IF "all" \in Range(config.techniques)
                              THEN AllTechniques ELSE config.techniques]]
    /\ UNCHANGED <<config, libs, an, run>>

\* generate_all is called on an instance whose earlier call has returned:
\* variants = [] is a new list, self.generated_variants is as it was left.
GenerateAllAgain(g) ==
    /\ gen[g].pc = "returned"
    /\ gen[g].calls < MaxCalls
    /\ gen' = [gen EXCEPT ![g] =
                [@ EXCEPT !.pc = "loop",
                          !.calls = @ + 1,
                          !.variants = << >>,
                          !.idx = 1,
                          !.techniques =
                              IF "all" \in Range(config.techniques)
                              THEN AllTechniques ELSE config.techniques]]
    /\ UNCHANGED <<config, libs, an, run>>

NextAgain ==
    \/ \E g \in DOMAIN gen : GenerateAll(g)
    \/ \E g \in DOMAIN gen : generate_homograph(g)
    \/ \E g \in DOMAIN gen : generate_leetspeak(g)
    \/ \E g \in DOMAIN gen : generate_typo(g)
    \/ \E g \in DOMAIN gen : generate_phonetic(g)
    \/ \E g \in DOMAIN gen : generate_repetition(g)
    \/ \E g \in DOMAIN gen : generate_omission(g)
    \/ \E g \in DOMAIN gen : generate_insertion(g)
    \/ \E g \in DOMAIN gen : generate_transposition(g)
    \/ \E g \in DOMAIN gen : generate_hyphenation(g)
    \/ \E g \in DOMAIN gen : generate_tld(g)
    \/ \E g \in DOMAIN gen : generate_prefix(g)
    \/ \E g \in DOMAIN gen : generate_suffix(g)
    \/ \E g \in DOMAIN gen : generate_vowel_swap(g)
    \/ \E g \in DOMAIN gen : generate_double_char(g)
    \/ \E g \in DOMAIN gen : generate_bitsquatting(g)
    \/ \E g \in DOMAIN gen : generate_subdomain(g)
    \/ \E g \in DOMAIN gen : NoSuchMethod(g)
    \/ \E g \in DOMAIN gen : GenerateAllReturn(g)
    \/ \E g \in DOMAIN gen : GenerateAllAgain(g)

\* One generator, generate_all called up to MaxCalls times.
SpecAgain == Init /\ [][NextAgain]_vars

\* C27: from the second call of generate_all on an instance on, no variant
\* is emitted and the returned list is empty.
C27_SecondCallEmpty ==
    \A g \in DOMAIN gen :
        gen[g].calls >= 2 =>
            /\ gen[g].variants = << >>
            /\ Returned(g) => gen[g].result = << >>

\* A second call has returned on an instance whose first call emitted
\* variants, with the cap not reached.
C27_Witness ==
    \E g \in DOMAIN gen :
        /\ Returned(g)
        /\ gen[g].calls = 2
        /\ gen[g].generated_variants # {}
        /\ Cardinality(gen[g].generated_variants) < gen[g].max_variants

\* check_dns was called for item i (the only place DNS queries are made).
DnsIssued(i) == an[i].dns # None

\* C28: with check_dns off no DNS and no WHOIS query is made for a variant,
\* and a returned variant is unregistered with trust level unregistered and
\* risk score 0, whether check_whois is on or off.
C28_NoDnsNoQueries ==
    ~config.check_dns =>
        \A i \in DOMAIN an :
            /\ ~DnsIssued(i)
            /\ ~WhoisIssued(i)
            /\ an[i].pc = "returned" =>
                 /\ ~an[i].variant.is_registered
                 /\ an[i].variant.trust_level = "unregistered"
                 /\ an[i].variant.risk_score = 0

\* A variant returned with check_dns off and check_whois on.
C28_Witness ==
    /\ ~config.check_dns
    /\ config.check_whois
    /\ \E i \in DOMAIN an :
         /\ an[i].pc = "returned"
         /\ an[i].variant.trust_level = "unregistered"

(***************************************************************************)
(* analyze_variant called more than once on the same DomainVariant object: *)
(* the resolver and the WHOIS server may answer differently each time.     *)
(***************************************************************************)
MaxPasses == 2

\* One fresh variant, with the object's fields as the current call found
\* them (prev) and the number of calls made on it (passes).
InitReanalyze ==
    /\ config \in AnalyzeConfigs
    /\ libs \in [DNS_AVAILABLE : BOOLEAN, WHOIS_AVAILABLE : BOOLEAN]
    /\ gen = << >>
    /\ run = << >>
    /\ an = [i \in {1} |->
                [variant |-> FreshVariants[i], pc |-> "submitted",
                 dns |-> None, whois |-> None,
                 prev |-> FreshVariants[i], passes |-> 1]]

\* analyze_variant is called again on the object an earlier call returned.
AnalyzeAgain(i) ==
    /\ an[i].pc = "returned"
    /\ an[i].passes < MaxPasses
    /\ an' = [an EXCEPT ![i] =
                [@ EXCEPT !.pc = "submitted", !.dns = None, !.whois = None,
                          !.prev = an[i].variant, !.passes = @ + 1]]
    /\ UNCHANGED <<config, libs, gen, run>>

NextReanalyze ==
    \/ \E i \in DOMAIN an : AnalyzeCheckDns(i)
    \/ \E i \in DOMAIN an : AnalyzeSkipDns(i)
    \/ \E i \in DOMAIN an : AnalyzeWhois(i)
    \/ \E i \in DOMAIN an : AnalyzeWhoisRaises(i)
    \/ \E i \in DOMAIN an : AnalyzeNoWhois(i)
    \/ \E i \in DOMAIN an : AnalyzeUnregistered(i)
    \/ \E i \in DOMAIN an : AnalyzeAgain(i)

SpecReanalyze == InitReanalyze /\ [][NextReanalyze]_vars

\* The four fields only the WHOIS branch assigns.
WhoisFields(variant) ==
    <<variant.whois_data, variant.creation_date, variant.registrar,
      variant.domain_age_days>>

\* The call on item i took the WHOIS branch (is_registered is not assigned
\* after the test).
TookWhoisBranch(i) == an[i].variant.is_registered /\ config.check_whois

\* C29: a returned variant has, of the fields the call's branch does not
\* assign, the values the call found.  When DNS finds nothing, is_registered,
\* dns_records, trust_level and risk_score are those of this call and
\* whois_data, creation_date, registrar and domain_age_days are the earlier
\* ones; when the WHOIS answer has no usable creation date, domain_age_days
\* is the earlier one and the trust level is computed from it.
C29_StaleFieldsKept ==
    \A i \in DOMAIN an :
        an[i].pc = "returned" =>
            /\ (DnsIssued(i) /\ ~an[i].variant.is_registered) =>
                 /\ an[i].variant.dns_records
                      = check_dns(libs, an[i].dns[1]).records
                 /\ an[i].variant.trust_level = "unregistered"
                 /\ an[i].variant.risk_score = 0
            /\ ~TookWhoisBranch(i) =>
                 WhoisFields(an[i].variant) = WhoisFields(an[i].prev)
            /\ (TookWhoisBranch(i) /\ ~Truthy(an[i].variant.creation_date)) =>
                 /\ an[i].variant.domain_age_days = an[i].prev.domain_age_days
                 /\ <<an[i].variant.trust_level, an[i].variant.risk_score>>
                      = calculate_trust_level(config, an[i].prev.domain_age_days)

\* A variant analyzed as registered, with WHOIS data and an age, has been
\* analyzed again, DNS found nothing, and it still has the data and the age.
C29_Witness ==
    \E i \in DOMAIN an :
        /\ an[i].pc = "returned"
        /\ an[i].passes = 2
        /\ an[i].prev.is_registered
        /\ an[i].prev.trust_level = "suspicious"
        /\ DnsIssued(i) /\ ~an[i].variant.is_registered
        /\ an[i].variant.trust_level = "unregistered"
        /\ an[i].variant.domain_age_days # None
        /\ an[i].variant.creation_date # None
        /\ DOMAIN an[i].variant.whois_data # {}

\* C30: when 'all' is among the configured techniques, no variant of the
\* returned list is tagged double_char: omission, which runs earlier, has
\* offered every string double_char offers.
C30_NoDoubleCharUnderAll ==
    \A g \in DOMAIN gen :
        (Returned(g) /\ "all" \in Range(config.techniques)) =>
            /\ DoubleChars(g) = {}
            /\ \A i \in 1..Len(DoubleCharCalls(gen[g].domain_name, gen[g].tld)) :
                 \E j \in 1..Len(OmissionCalls(gen[g].domain_name, gen[g].tld)) :
                     CandidateOf(OmissionCalls(gen[g].domain_name, gen[g].tld)[j])
                       = CandidateOf(DoubleCharCalls(gen[g].domain_name,
                                                     gen[g].tld)[i])

\* generate_all has returned under 'all' for a name with a pair of equal
\* adjacent characters, and the string double_char offers is in the list,
\* tagged omission.
C30_Witness ==
    \E g \in DOMAIN gen :
        /\ Returned(g)
        /\ "all" \in Range(config.techniques)
        /\ \E p \in EqualPairs(gen[g].domain_name) :
             \E k \in 1..Len(gen[g].result) :
                 /\ gen[g].result[k].variant_domain = Without(g, p)
                 /\ gen[g].result[k].technique = "omission"

=============================================================================
